---- MODULE Spec2Model ----
(***************************************************************************)
(* Water-management repository: the flat-file parsers of the historical    *)
(* load (ingestion/preload_historical.py), the incremental ingestor        *)
(* (ingestion/scheduler.py), the realtime simulator                        *)
(* (ingestion/simulate_realtime.py) and the alert evaluators (app/main.py, *)
(* dashwork/dash.py, analytics/chatbot.py, ingestion/scheduler.py).        *)
(*                                                                         *)
(* Text is modelled as a sequence of tokens.  A token is a word made of    *)
(* \w characters ("ETP", "pH"), one digit, one punctuation character, one  *)
(* blank, or the marker "Safe Range:".  No token is a prefix of another,   *)
(* so two token sequences spell the same string iff they are equal.        *)
(* Decimal numbers are integers counted in tenths (6.5 is 65).             *)
(***************************************************************************)
EXTENDS Integers, Sequences, FiniteSets, TLC

----------------------------------------------------------------------------
(* Bounds of the model *)

MaxRows == 4

MaxBatch == 2

----------------------------------------------------------------------------
(* Python values *)

\* None where a text is expected (falsy, like the empty text)
None == <<>>

\* None where a number is expected
NoneNum == -1000000

\* float('nan'), as a number no reading has
NaNNum == -2000000

\* Python truthiness of a number or None: None and 0 are falsy
TruthyNum(x) == x # NoneNum /\ x # 0

\* Python truthiness of a text or None
TruthyText(s) == s # None

----------------------------------------------------------------------------
(* Token-level text operations *)

SafeRangeMarker == "Safe Range:"

DigitTokens == {"1", "2"}

\* characters the regular expression [^\w\s()] deletes
PunctTokens == {".", ",", "-", ":"}

RECURSIVE LStrip(_, _)
LStrip(s, chars) ==
    IF s # <<>> /\ Head(s) \in chars THEN LStrip(Tail(s), chars) ELSE s

RECURSIVE RStrip(_, _)
RStrip(s, chars) ==
    IF s # <<>> /\ s[Len(s)] \in chars
    THEN RStrip(SubSeq(s, 1, Len(s) - 1), chars)
    ELSE s

\* str.strip(chars)
StripChars(s, chars) == RStrip(LStrip(s, chars), chars)

\* str.strip()
Strip(s) == StripChars(s, {" "})

\* index of the first occurrence of token t in s, 0 when absent
RECURSIVE IndexOf(_, _, _)
IndexOf(s, t, i) ==
    IF i > Len(s) THEN 0
    ELSE IF s[i] = t THEN i
    ELSE IndexOf(s, t, i + 1)

Contains(s, t) == IndexOf(s, t, 1) # 0

\* str.split(t): the parts between the occurrences of t
RECURSIVE Split(_, _)
Split(s, t) ==
    LET i == IndexOf(s, t, 1)
    IN  IF i = 0 THEN <<s>>
        ELSE <<SubSeq(s, 1, i - 1)>> \o Split(SubSeq(s, i + 1, Len(s)), t)

\* re.sub(r'^\d+\.\s*', '', s)
RemoveNumbering(s) ==
    LET rest == LStrip(s, DigitTokens)
    IN  IF Len(rest) < Len(s) /\ rest # <<>> /\ Head(rest) = "."
        THEN LStrip(Tail(rest), {" "})
        ELSE s

\* re.sub(r'[^\w\s()]', '', s)
RemoveNonWord(s) == SelectSeq(s, LAMBDA t : t \notin PunctTokens)

\* s.replace('(', ' (').replace(')', ') ')
RECURSIVE SpaceParens(_)
SpaceParens(s) ==
    IF s = <<>> THEN <<>>
    ELSE IF Head(s) = "(" THEN <<" ", "(">> \o SpaceParens(Tail(s))
    ELSE IF Head(s) = ")" THEN <<")", " ">> \o SpaceParens(Tail(s))
    ELSE <<Head(s)>> \o SpaceParens(Tail(s))

\* s.replace('  ', ' '): one pass, left to right, over non-overlapping pairs
RECURSIVE CollapsePairs(_)
CollapsePairs(s) ==
    IF Len(s) < 2 THEN s
    ELSE IF s[1] = " " /\ s[2] = " "
         THEN <<" ">> \o CollapsePairs(SubSeq(s, 3, Len(s)))
         ELSE <<s[1]>> \o CollapsePairs(Tail(s))

----------------------------------------------------------------------------
(* Parameter / location registry *)

HUMIDITY == <<"HUMIDITY">>
ETP_TDS == <<"ETP", " ", "(", "TDS", ")">>
ETP_pH == <<"ETP", " ", "(", "pH", ")">>
STP_TDS == <<"STP", " ", "(", "TDS", ")">>
STP_TSS == <<"STP", " ", "(", "TSS", ")">>
STP_BOD == <<"STP", " ", "(", "BOD", ")">>
STP_pH == <<"STP", " ", "(", "pH", ")">>
STP_COD == <<"STP", " ", "(", "COD", ")">>

ALLOWED_PARAMETERS ==
    {HUMIDITY, ETP_TDS, ETP_pH, STP_TDS, STP_TSS, STP_BOD, STP_pH, STP_COD}

Systems == {"ETP", "STP"}

Measures == {"TDS", "TSS", "BOD", "pH", "COD"}

\* the pairs name_mapping has entries for: every STP measure, ETP TDS, ETP pH
MappedPairs ==
    {<<s, m>> \in Systems \X Measures : s = "STP" \/ m \in {"TDS", "pH"}}

\* keys of name_mapping: 'ETP TDS', 'ETP(TDS)', ..., 'HUMIDITY'
name_mapping_keys ==
    {<<p[1], " ", p[2]>> : p \in MappedPairs}
        \cup {<<p[1], "(", p[2], ")">> : p \in MappedPairs}
        \cup {HUMIDITY}

\* name_mapping[k] for a key k: 'ETP TDS' and 'ETP(TDS)' both give 'ETP (TDS)'
name_mapping(k) ==
    IF k = HUMIDITY THEN HUMIDITY ELSE <<k[1], " ", "(", k[3], ")">>

\* dict.get(cleaned, cleaned)
name_mapping_get(cleaned) ==
    IF cleaned \in name_mapping_keys THEN name_mapping(cleaned) ELSE cleaned

\* the cleaning steps of normalize_parameter_name, up to the alias lookup
CleanName(raw_name) ==
    LET c1 == Strip(raw_name)
        c2 == RemoveNumbering(c1)
        c3 == RStrip(c2, {","})
        c4 == IF Contains(c3, SafeRangeMarker)
              THEN Strip(Split(c3, SafeRangeMarker)[1])
              ELSE c3
    IN  Strip(RemoveNonWord(c4))

\* the alias lookup and the spacing around parentheses
SpacedName(cleaned) ==
    CollapsePairs(Strip(SpaceParens(name_mapping_get(cleaned))))

\* a plausible slip: the final validation against ALLOWED_PARAMETERS is left out
normalize_parameter_name_unvalidated(raw_name) == SpacedName(CleanName(raw_name))

\* SupabaseRestIngestion.normalize_parameter_name
normalize_parameter_name(raw_name) ==
    LET normalized == SpacedName(CleanName(raw_name))
    IN  IF normalized \in ALLOWED_PARAMETERS THEN normalized ELSE None

----------------------------------------------------------------------------
(* Cells and rows of a table read by pd.read_csv(file_path, header=None) *)

\* an empty cell (NaN)
NaN == [t |-> "nan", s |-> <<>>, n |-> <<>>]

\* a cell holding text
Text(tokens) == [t |-> "text", s |-> tokens, n |-> <<>>]

\* a cell holding the zero-padded date "a-b-2025"
DateCell(a, b) == [t |-> "date", s |-> <<>>, n |-> <<a, b>>]

\* a cell holding the unpadded date "a-b-2025" (fewer than 10 characters)
ShortDateCell(a, b) == [t |-> "sdate", s |-> <<>>, n |-> <<a, b>>]

\* a cell holding a time of day with seconds, "08:30:00"
TimeCell == [t |-> "time", s |-> <<>>, n |-> <<>>]

\* a cell holding the decimal number x (in tenths)
Num(x) == [t |-> "num", s |-> <<>>, n |-> <<x>>]

\* a cell holding "inf"
Inf == [t |-> "inf", s |-> <<>>, n |-> <<>>]

\* pd.isna(cell)
isna(cell) == cell.t = "nan"

\* the tokens of str(cell), for the cells text operations are applied to
Line(cell) == IF cell.t = "text" THEN cell.s ELSE <<>>

\* outcome of a conversion that may raise
Raised == [ok |-> FALSE, v |-> 0]

Ok(v) == [ok |-> TRUE, v |-> v]

\* a timestamp of 2025 as month * 100 + day: the order of the ISO strings
Stamp(day, month) == month * 100 + day

ValidDate(day, month) == day \in 1..28 /\ month \in 1..12

\* pd.to_datetime(f"{row[0]} {row[1]}", dayfirst=True): the first number is the
\* day unless that gives no valid date and the other order does
to_datetime_dayfirst(c0, c1) ==
    IF c0.t # "date" \/ c1.t # "time" THEN Raised
    ELSE IF ValidDate(c0.n[1], c0.n[2]) THEN Ok(Stamp(c0.n[1], c0.n[2]))
    ELSE IF ValidDate(c0.n[2], c0.n[1]) THEN Ok(Stamp(c0.n[2], c0.n[1]))
    ELSE Raised

\* pd.to_datetime(text, format="%d-%m-%Y %H:%M:%S"): day first, nothing else
to_datetime_strict(c0, c1) ==
    IF c0.t = "date" /\ c1.t = "time" /\ ValidDate(c0.n[1], c0.n[2])
    THEN Ok(Stamp(c0.n[1], c0.n[2]))
    ELSE Raised

\* pd.to_datetime(text): the first number is the month unless that gives no
\* valid date and the other order does
to_datetime(c0, c1) ==
    IF c0.t \notin {"date", "sdate"} \/ c1.t # "time" THEN Raised
    ELSE IF ValidDate(c0.n[2], c0.n[1]) THEN Ok(Stamp(c0.n[2], c0.n[1]))
    ELSE IF ValidDate(c0.n[1], c0.n[2]) THEN Ok(Stamp(c0.n[1], c0.n[2]))
    ELSE Raised

\* float('inf'), as a number above every reading
InfNum == 1000000

\* float(cell) of a cell that IsFloat
FloatOf(cell) == IF cell.t = "inf" THEN InfNum ELSE cell.n[1]

\* float(cell): a number, an infinity, or ValueError
IsFloat(cell) == cell.t \in {"num", "inf"}

\* np.isfinite(float(cell))
isfinite(cell) == cell.t = "num"

\* the decimal numbers that occur in range texts, and their values in tenths
NumTokens == {"6.5", "9.0", "0", "5", "30", "70"}

NumVal(tok) ==
    CASE tok = "6.5" -> 65
      [] tok = "9.0" -> 90
      [] tok = "0" -> 0
      [] tok = "5" -> 50
      [] tok = "30" -> 300
      [] tok = "70" -> 700

\* float(s) of a text: blanks around one decimal number
FloatOfText(s) ==
    LET c == Strip(s)
    IN  IF Len(c) = 1 /\ c[1] \in NumTokens THEN Ok(NumVal(c[1])) ELSE Raised

----------------------------------------------------------------------------
(* State *)

VARIABLES
    \* process_water_quality_data: the rows read so far and the locals
    q_file, q_pc, current_param, safe_min, safe_max, rows_by_param,
    skipped_invalid_params, skipped_null_values, quality_data,
    \* process_flow_data: the rows read so far and the locals
    f_file, f_pc, current_location, rows_by_location, flow_data,
    \* an alert evaluator: the readings fetched, the evaluator that ran, its
    \* alerts
    quality_df, a_pc, evaluator, alerts,
    \* the writers of the flow_rate table: the writer that ran and the
    \* records it handed to the store
    w_pc, writer, flow_records

qvars ==
    <<q_file, q_pc, current_param, safe_min, safe_max, rows_by_param,
      skipped_invalid_params, skipped_null_values, quality_data>>

fvars == <<f_file, f_pc, current_location, rows_by_location, flow_data>>

avars == <<quality_df, a_pc, evaluator, alerts>>

wvars == <<w_pc, writer, flow_records>>

VARIABLES
    \* run_ingestion_cycle, quality part: the table, the seed of the random
    \* generator, the result of the historical load of the same table, the
    \* locals of get_remaining_data_chunks, the chunks not yet yielded and the
    \* batches handed to ingest_batch
    i_file, i_seed, i_pc, i_historical, i_param, rows_by_param_loc, i_keys,
    i_chunks, i_submitted

ivars ==
    <<i_file, i_seed, i_pc, i_historical, i_param, rows_by_param_loc, i_keys,
      i_chunks, i_submitted>>

VARIABLES
    \* the store: the rows of its two tables in the order they were accepted,
    \* the number of requests that may still fail, and the rows accepted
    \* after clear_existing_data has returned
    water_quality, flow_rate, faults, t_accepted,
    \* run_full_ingestion: its position, clear_existing, the number of rows
    \* of its two CSV files, the locals of insert_data_batch (data, i,
    \* total_inserted) and the requests made so far
    d_pc, d_clear, d_rows, d_data, d_i, d_total, d_requests,
    \* run_simulation: its position, the state of the random generator, the
    \* turns made, the lists simulate_readings returned and the requests made
    s_pc, s_seed, s_ticks, s_quality, s_flow, s_requests

tvars == <<water_quality, flow_rate, faults, t_accepted>>

dvars == <<d_pc, d_clear, d_rows, d_data, d_i, d_total, d_requests>>

svars == <<s_pc, s_seed, s_ticks, s_quality, s_flow, s_requests>>

VARIABLES
    \* WaterChatBot: the position in generate_response, the clock in seconds,
    \* the questions asked, the question and its intent, self.query_cache (an
    \* entry per key) and the calls of fetch_data made so far
    c_pc, c_now, c_asked, c_question, c_intent, query_cache, c_fetches

cvars == <<c_pc, c_now, c_asked, c_question, c_intent, query_cache, c_fetches>>

VARIABLES
    \* a fetch through the store interface: its position, the function that
    \* runs, the rows of the table that match the filter, the intent (chatbot
    \* only), the locals offset and all_data, the requests made, the requests
    \* that may still fail, and the table returned
    g_pc, g_impl, g_rows, g_intent, g_offset, g_all_data, g_calls, g_faults,
    g_df

gvars ==
    <<g_pc, g_impl, g_rows, g_intent, g_offset, g_all_data, g_calls, g_faults,
      g_df>>

VARIABLES
    \* show_chatbot: the implementation that runs, whether its chatbot is
    \* initialized, st.session_state.chat_history, and the runs handled so far
    h_impl, h_initialized, chat_history, h_handled

hvars == <<h_impl, h_initialized, chat_history, h_handled>>

VARIABLES
    \* an entry point started in an environment: which one, the configuration
    \* values that are set, where it stands, and the calls it has made to the
    \* store or the LLM
    e_entry, e_config, e_pc, e_calls

evars == <<e_entry, e_config, e_pc, e_calls>>

VARIABLES
    \* start_scheduler: its position, the quality table it reads on every
    \* cycle, the state of the random generator, whether the store keeps one
    \* row per (timestamp, parameter_name, location_name), the chunks of the
    \* cycle not yet upserted and the cycles started
    u_pc, u_file, u_seed, u_keyed, u_chunks, u_cycles

uvars == <<u_pc, u_file, u_seed, u_keyed, u_chunks, u_cycles>>

VARIABLES
    \* DashboardManager.fetch_split_data: its position, the mode asked for,
    \* whether the manager is initialized, the rows of the two tables, the
    \* request of the call that raises (0: none), and what it returned
    k_pc, k_mode, k_initialized, k_flow, k_quality, k_raise_at, k_result

kvars == <<k_pc, k_mode, k_initialized, k_flow, k_quality, k_raise_at, k_result>>

\* the variables of the chatbot and of the programs of the user interface
xvars == <<cvars, gvars, hvars, evars, uvars, kvars>>

\* the variables of the parsers, the alert evaluators and the flow writers,
\* with those of the user interface
pvars == <<qvars, fvars, avars, wvars, xvars>>

\* the variables of the other programs
ovars == <<ivars, tvars, dvars, svars, xvars>>

\* the variables of the ingestion programs and of the store
bvars == <<qvars, fvars, avars, wvars, ivars, tvars, dvars, svars>>

vars == <<qvars, fvars, avars, wvars, ovars>>

\* the alert evaluators at rest, for the specifications that do not run them
AIdle ==
    /\ quality_df = <<>>
    /\ a_pc = "idle"
    /\ evaluator = "none"
    /\ alerts = <<>>

\* no writer of the flow_rate table has run
WIdle ==
    /\ w_pc = "idle"
    /\ writer = "none"
    /\ flow_records = {}

\* an empty dict
EmptyDict == <<>>

\* the incremental ingestor at rest
IIdle ==
    /\ i_file = <<>>
    /\ i_seed = 0
    /\ i_pc = "idle"
    /\ i_historical = EmptyDict
    /\ i_param = None
    /\ rows_by_param_loc = EmptyDict
    /\ i_keys = <<>>
    /\ i_chunks = <<>>
    /\ i_submitted = <<>>

\* run_full_ingestion is not running
DIdle ==
    /\ d_pc = "off"
    /\ d_clear = FALSE
    /\ d_rows = 0
    /\ d_data = <<>>
    /\ d_i = 0
    /\ d_total = 0
    /\ d_requests = <<>>

\* run_simulation is not running
SIdle ==
    /\ s_pc = "off"
    /\ s_seed = 0
    /\ s_ticks = 0
    /\ s_quality = <<>>
    /\ s_flow = <<>>
    /\ s_requests = <<>>

\* the store is not used
TIdle ==
    /\ water_quality = <<>>
    /\ flow_rate = <<>>
    /\ faults = 0
    /\ t_accepted = [water_quality |-> <<>>, flow_rate |-> <<>>]

\* the chatbot is not used
CIdle ==
    /\ c_pc = "off"
    /\ c_now = 0
    /\ c_asked = 0
    /\ c_question = {}
    /\ c_intent = <<>>
    /\ query_cache = {}
    /\ c_fetches = <<>>

\* no fetch is under way
GIdle ==
    /\ g_pc = "off"
    /\ g_impl = "none"
    /\ g_rows = <<>>
    /\ g_intent = <<>>
    /\ g_offset = 0
    /\ g_all_data = <<>>
    /\ g_calls = 0
    /\ g_faults = 0
    /\ g_df = <<>>

\* no chat panel is shown
HIdle ==
    /\ h_impl = "none"
    /\ h_initialized = FALSE
    /\ chat_history = <<>>
    /\ h_handled = <<>>

\* no entry point is starting
EIdle ==
    /\ e_entry = "none"
    /\ e_config = {}
    /\ e_pc = "off"
    /\ e_calls = 0

\* the scheduler is not started
UIdle ==
    /\ u_pc = "off"
    /\ u_file = <<>>
    /\ u_seed = 0
    /\ u_keyed = FALSE
    /\ u_chunks = <<>>
    /\ u_cycles = 0

\* fetch_split_data is not called
KIdle ==
    /\ k_pc = "off"
    /\ k_mode = "none"
    /\ k_initialized = FALSE
    /\ k_flow = <<>>
    /\ k_quality = <<>>
    /\ k_raise_at = 0
    /\ k_result = <<>>

\* the programs of the user interface at rest
NIdle == GIdle /\ HIdle /\ EIdle /\ UIdle /\ KIdle

\* the other programs at rest, for the specifications that do not run them
OIdle == IIdle /\ TIdle /\ DIdle /\ SIdle /\ CIdle /\ NIdle

\* defaultdict(list): d[k].append(r)
AppendTo(d, k, r) ==
    IF k \in DOMAIN d THEN [d EXCEPT ![k] = Append(@, r)] ELSE d @@ (k :> <<r>>)

\* INGESTION_PERCENTAGE = 0.8, in percent
INGESTION_PERCENTAGE == 80

\* int(len(rows) * INGESTION_PERCENTAGE)
Cutoff(n) == (n * INGESTION_PERCENTAGE) \div 100

----------------------------------------------------------------------------
(* SupabaseRestIngestion.process_water_quality_data *)

\* words that make a line a column-title line, as they are spelt in cells
TitleTokens == {"Date", "Time", "Parameter"}

\* pd.isna(row[0])
QIsEmptyLine(row) == isna(row[1])

\* "Safe Range:" in line
QIsParameterLine(row) ==
    ~QIsEmptyLine(row) /\ Contains(Line(row[1]), SafeRangeMarker)

\* any(x in line.lower() for x in ["date", "time", "parameter"])
QIsHeaderLine(row) ==
    /\ ~QIsEmptyLine(row)
    /\ ~QIsParameterLine(row)
    /\ \E t \in TitleTokens : Contains(Line(row[1]), t)

QIsDataRow(row) ==
    ~QIsEmptyLine(row) /\ ~QIsParameterLine(row) /\ ~QIsHeaderLine(row)

\* the locals of the scan loop; raised: an exception has left the loop
QLocals ==
    [current_param |-> current_param, safe_min |-> safe_min,
     safe_max |-> safe_max, rows_by_param |-> rows_by_param,
     skipped_invalid_params |-> skipped_invalid_params,
     skipped_null_values |-> skipped_null_values, raised |-> FALSE]

\* line.split("Safe Range:")[0].strip(), numbering removed
ParamLine(line) == RemoveNumbering(Strip(Split(line, SafeRangeMarker)[1]))

\* map(float, safe_range_str.split("to")) unpacked into two values
ParseSafeRange(line) ==
    LET safe_range_str ==
            StripChars(Strip(Split(line, SafeRangeMarker)[2]), {" ", "(", ")"})
        parts == Split(safe_range_str, "to")
    IN  IF Len(parts) = 2 /\ FloatOfText(parts[1]).ok /\ FloatOfText(parts[2]).ok
        THEN Ok(<<FloatOfText(parts[1]).v, FloatOfText(parts[2]).v>>)
        ELSE Raised

\* a plausible slip: the range is parsed outside the try block, so a range
\* text that does not parse leaves the loop and reaches the outer except
QParameterStepUncaught(st, line) ==
    LET cp == normalize_parameter_name(ParamLine(line))
        range == ParseSafeRange(line)
    IN  IF ~TruthyText(cp)
        THEN [st EXCEPT !.current_param = cp, !.skipped_invalid_params = @ + 1]
        ELSE IF range.ok
        THEN [st EXCEPT !.current_param = cp,
                        !.safe_min = range.v[1], !.safe_max = range.v[2]]
        ELSE [st EXCEPT !.current_param = cp, !.raised = TRUE]

\* a plausible slip: the normalized name is assigned to current_param only
\* after the check, so a rejected label leaves the previous section active
QParameterStepKeepsPrevious(st, line) ==
    LET cp == normalize_parameter_name(ParamLine(line))
        range == ParseSafeRange(line)
    IN  IF ~TruthyText(cp)
        THEN [st EXCEPT !.skipped_invalid_params = @ + 1]
        ELSE IF range.ok
        THEN [st EXCEPT !.current_param = cp,
                        !.safe_min = range.v[1], !.safe_max = range.v[2]]
        ELSE [st EXCEPT !.current_param = cp, !.skipped_invalid_params = @ + 1]

\* the handling of a parameter definition line (the try block and its except)
QParameterStep(st, line) ==
    LET cp == normalize_parameter_name(ParamLine(line))
        range == ParseSafeRange(line)
    IN  IF ~TruthyText(cp)
        THEN [st EXCEPT !.current_param = cp, !.skipped_invalid_params = @ + 1]
        ELSE IF range.ok
        THEN [st EXCEPT !.current_param = cp,
                        !.safe_min = range.v[1], !.safe_max = range.v[2]]
        ELSE [st EXCEPT !.current_param = cp, !.skipped_invalid_params = @ + 1]

\* the record appended for a data row
QRecord(st, row) ==
    [timestamp |-> to_datetime_dayfirst(row[1], row[2]).v,
     parameter_name |-> st.current_param,
     value |-> FloatOf(row[3]),
     safe_min |-> st.safe_min,
     safe_max |-> st.safe_max]

QCountSkipped(st) == [st EXCEPT !.skipped_null_values = @ + 1]

\* a plausible slip: the except around float() skips the row without counting
QDataStepUncounted(st, row) ==
    IF ~TruthyText(st.current_param) THEN st
    ELSE IF isna(row[1]) \/ isna(row[2]) \/ isna(row[3]) THEN QCountSkipped(st)
    ELSE IF ~to_datetime_dayfirst(row[1], row[2]).ok THEN QCountSkipped(st)
    ELSE IF ~IsFloat(row[3]) THEN st
    ELSE IF ~isfinite(row[3]) THEN QCountSkipped(st)
    ELSE [st EXCEPT !.rows_by_param =
                        AppendTo(@, st.current_param, QRecord(st, row))]

\* a plausible slip: the np.isfinite check is left out
QDataStepNoFiniteCheck(st, row) ==
    IF ~TruthyText(st.current_param) THEN st
    ELSE IF isna(row[1]) \/ isna(row[2]) \/ isna(row[3]) THEN QCountSkipped(st)
    ELSE IF ~to_datetime_dayfirst(row[1], row[2]).ok THEN QCountSkipped(st)
    ELSE IF ~IsFloat(row[3]) THEN QCountSkipped(st)
    ELSE [st EXCEPT !.rows_by_param =
                        AppendTo(@, st.current_param, QRecord(st, row))]

\* the handling of a data row (the try block and its excepts)
QDataStep(st, row) ==
    IF ~TruthyText(st.current_param) THEN st
    ELSE IF isna(row[1]) \/ isna(row[2]) \/ isna(row[3]) THEN QCountSkipped(st)
    ELSE IF ~to_datetime_dayfirst(row[1], row[2]).ok THEN QCountSkipped(st)
    ELSE IF ~IsFloat(row[3]) THEN QCountSkipped(st)
    ELSE IF ~isfinite(row[3]) THEN QCountSkipped(st)
    ELSE [st EXCEPT !.rows_by_param =
                        AppendTo(@, st.current_param, QRecord(st, row))]

\* one iteration of "for _, row in df.iterrows()"
QRowStep(st, row) ==
    IF QIsEmptyLine(row) THEN st
    ELSE IF QIsParameterLine(row) THEN QParameterStep(st, Line(row[1]))
    ELSE IF QIsHeaderLine(row) THEN st
    ELSE QDataStep(st, row)

\* the truncation of every group to its historical part
QTruncate(groups) ==
    [k \in DOMAIN groups |->
        IF groups[k] # <<>>
        THEN SubSeq(groups[k], 1, Cutoff(Len(groups[k])))
        ELSE groups[k]]

\* parameter definition lines of the input tables
QParameterLines ==
    { <<"1", ".", " ", "ETP", "(", "pH", ")", " ", SafeRangeMarker, " ",
        "(", "6.5", " ", "to", " ", "9.0", ")">>,
      <<"HUMIDITY", ",", " ", SafeRangeMarker, " ", "30", "-", "70">>,
      <<"Chlorine", " ", SafeRangeMarker, " ", "(", "0", " ", "to", " ", "5", ")">> }

\* the rows an input table of the quality parser is made of
QRows ==
    { <<Text(l), NaN, NaN>> : l \in QParameterLines }
        \cup { <<Text(<<"Date">>), Text(<<"Time">>), Text(<<"Parameter">>)>>,
               <<NaN, NaN, NaN>>,
               <<DateCell(1, 6), TimeCell, Num(72)>>,
               <<DateCell(6, 1), TimeCell, Num(95)>>,
               <<DateCell(1, 6), TimeCell, Text(<<"abc">>)>>,
               <<DateCell(1, 6), TimeCell, Inf>> }

\* the loop body applied to the next row of the table
QScan(row) ==
    /\ q_pc = "scan"
    /\ Len(q_file) < MaxRows
    /\ \E new \in {QRowStep(QLocals, row)} :
        /\ q_file' = Append(q_file, row)
        /\ current_param' = new.current_param
        /\ safe_min' = new.safe_min
        /\ safe_max' = new.safe_max
        /\ skipped_invalid_params' = new.skipped_invalid_params
        /\ skipped_null_values' = new.skipped_null_values
        /\ IF new.raised
           THEN \* the outer except: return {}
                /\ q_pc' = "failed"
                /\ rows_by_param' = rows_by_param
                /\ quality_data' = EmptyDict
           ELSE /\ q_pc' = "scan"
                /\ rows_by_param' = new.rows_by_param
                /\ quality_data' = quality_data
    /\ UNCHANGED <<fvars, avars, wvars, ovars>>

QSkipEmptyLine ==
    /\ q_pc = "scan"
    /\ \E row \in QRows : QIsEmptyLine(row) /\ QScan(row)

QParameterLine ==
    /\ q_pc = "scan"
    /\ \E row \in QRows : QIsParameterLine(row) /\ QScan(row)

QSkipHeaderLine ==
    /\ q_pc = "scan"
    /\ \E row \in QRows : QIsHeaderLine(row) /\ QScan(row)

QDataRow ==
    /\ q_pc = "scan"
    /\ \E row \in QRows : QIsDataRow(row) /\ QScan(row)

\* the end of the table: the summary, the truncation and the return
QReturn ==
    /\ q_pc = "scan"
    /\ q_pc' = "returned"
    /\ rows_by_param' = QTruncate(rows_by_param)
    /\ quality_data' = rows_by_param'
    /\ UNCHANGED <<q_file, current_param, safe_min, safe_max,
                   skipped_invalid_params, skipped_null_values>>
    /\ UNCHANGED <<fvars, avars, wvars, ovars>>

QInit ==
    /\ q_file = <<>>
    /\ q_pc = "scan"
    /\ current_param = None
    /\ safe_min = NoneNum
    /\ safe_max = NoneNum
    /\ rows_by_param = EmptyDict
    /\ skipped_invalid_params = 0
    /\ skipped_null_values = 0
    /\ quality_data = EmptyDict

\* the flow parser at rest, for the specifications that do not run it
FIdle ==
    /\ f_file = <<>>
    /\ f_pc = "idle"
    /\ current_location = None
    /\ rows_by_location = EmptyDict
    /\ flow_data = EmptyDict

InitQuality == QInit /\ FIdle /\ AIdle /\ WIdle /\ OIdle

NextQuality ==
    \/ QSkipEmptyLine
    \/ QParameterLine
    \/ QSkipHeaderLine
    \/ QDataRow
    \/ QReturn

\* process_water_quality_data over every table of at most MaxRows rows
SpecQuality == InitQuality /\ [][NextQuality]_vars

----------------------------------------------------------------------------
(* SupabaseRestIngestion.process_flow_data *)

LocationMarker == "Location Name:"

\* the names of the five facility locations
CorporationWater == <<"Corporation Water">>
GroundWaterSource1 == <<"Ground Water Source 1">>
GroundWaterSource2 == <<"Ground Water Source 2">>
IndustrialProcess == <<"Industrial Process">>
TankerWaterSupply == <<"Tanker Water Supply">>

expected_locations ==
    {CorporationWater, GroundWaterSource1, GroundWaterSource2,
     IndustrialProcess, TankerWaterSupply}

\* str.lower() of a token
Lower(tok) ==
    CASE tok = "Date" -> "date"
      [] tok = "Time" -> "time"
      [] tok = "Totalizer" -> "totalizer"
      [] OTHER -> tok

\* col.lower() == word, for col = str(cell).strip() or ""
LowerEquals(cell, word) ==
    /\ cell.t = "text"
    /\ Len(Strip(cell.s)) = 1
    /\ Lower(Strip(cell.s)[1]) = word

\* not col, for col = str(cell).strip() if pd.notna(cell) else ""
ColEmpty(cell) == isna(cell) \/ (cell.t = "text" /\ Strip(cell.s) = <<>>)

\* col_a.startswith("Location Name:")
FIsLocationLine(row) ==
    /\ row[1].t = "text"
    /\ Strip(row[1].s) # <<>>
    /\ Head(Strip(row[1].s)) = LocationMarker

\* col_a.replace("Location Name:", "").strip()
LocationOf(cell) ==
    Strip(SelectSeq(Strip(cell.s), LAMBDA t : t # LocationMarker))

FIsTitleLine(row) ==
    /\ ~FIsLocationLine(row)
    /\ LowerEquals(row[1], "date")
    /\ LowerEquals(row[2], "time")
    /\ LowerEquals(row[3], "totalizer")

FIsBlankLine(row) ==
    /\ ~FIsLocationLine(row)
    /\ ~FIsTitleLine(row)
    /\ ColEmpty(row[1]) /\ ColEmpty(row[2]) /\ ColEmpty(row[3])

FIsDataRow(row) ==
    ~FIsLocationLine(row) /\ ~FIsTitleLine(row) /\ ~FIsBlankLine(row)

\* col_a == "########"
IsOverflowCell(cell) == cell.t = "text" /\ Strip(cell.s) = <<"########">>

\* the timestamp of a flow row: the strict format for a date of 10 characters
\* with two dashes, else the permissive parse
FTimestamp(row) ==
    IF row[1].t = "date"
    THEN to_datetime_strict(row[1], row[2])
    ELSE to_datetime(row[1], row[2])

FLocals ==
    [current_location |-> current_location,
     rows_by_location |-> rows_by_location, raised |-> FALSE]

FRecord(st, row) ==
    [timestamp |-> FTimestamp(row).v,
     location_name |-> st.current_location,
     totalizer |-> FloatOf(row[3])]

\* the handling of a row that is no location, title or blank line
FDataStep(st, row) ==
    IF ~(TruthyText(st.current_location)
            /\ ~ColEmpty(row[1]) /\ ~ColEmpty(row[2]) /\ ~ColEmpty(row[3]))
    THEN st
    ELSE IF IsOverflowCell(row[1]) THEN st
    ELSE IF ~IsFloat(row[3]) THEN st
    ELSE IF ~FTimestamp(row).ok THEN st
    ELSE [st EXCEPT !.rows_by_location =
                        AppendTo(@, st.current_location, FRecord(st, row))]

\* one iteration of "for index, row in df.iterrows()"
FRowStep(st, row) ==
    IF FIsLocationLine(row)
    THEN [st EXCEPT !.current_location = LocationOf(row[1])]
    ELSE IF FIsTitleLine(row) THEN st
    ELSE IF FIsBlankLine(row) THEN st
    ELSE FDataStep(st, row)

\* list.sort(key=lambda x: x['timestamp']): a stable sort
RECURSIVE InsertByTimestamp(_, _)
InsertByTimestamp(sorted, r) ==
    IF sorted = <<>> THEN <<r>>
    ELSE IF sorted[Len(sorted)].timestamp <= r.timestamp THEN Append(sorted, r)
    ELSE Append(InsertByTimestamp(SubSeq(sorted, 1, Len(sorted) - 1), r),
                sorted[Len(sorted)])

RECURSIVE SortByTimestamp(_)
SortByTimestamp(rows) ==
    IF rows = <<>> THEN <<>>
    ELSE InsertByTimestamp(SortByTimestamp(SubSeq(rows, 1, Len(rows) - 1)),
                           rows[Len(rows)])

\* the locations the loop after the scan processes
FProcessed(groups) ==
    {k \in DOMAIN groups : groups[k] # <<>> /\ k \in expected_locations}

\* rows_by_location after the loop: the processed groups are sorted in place
FSorted(groups) ==
    [k \in DOMAIN groups |->
        IF k \in FProcessed(groups) THEN SortByTimestamp(groups[k])
        ELSE groups[k]]

\* a plausible slip: the prefix is taken without the sort
FTruncateUnsorted(groups) ==
    [k \in FProcessed(groups) |->
        SubSeq(groups[k], 1, Cutoff(Len(groups[k])))]

\* processed_locations: the historical part of each processed group
FTruncate(groups) ==
    [k \in FProcessed(groups) |->
        SubSeq(SortByTimestamp(groups[k]), 1, Cutoff(Len(groups[k])))]

\* the rows an input table of the flow parser is made of
FRows ==
    { <<Text(<<LocationMarker, " ", "Corporation Water">>), NaN, NaN>>,
      <<Text(<<LocationMarker, " ", "Borewell 3">>), NaN, NaN>>,
      <<Text(<<"Date">>), Text(<<"Time">>), Text(<<"Totalizer">>)>>,
      <<NaN, NaN, NaN>>,
      <<DateCell(1, 6), TimeCell, Num(12345)>>,
      <<DateCell(6, 1), TimeCell, Num(10000)>>,
      <<Text(<<"########">>), TimeCell, Num(12345)>>,
      <<DateCell(1, 6), TimeCell, Text(<<"abc">>)>>,
      <<DateCell(1, 6), TimeCell, Inf>> }

FScan(row) ==
    /\ f_pc = "scan"
    /\ w_pc = "idle"
    /\ Len(f_file) < MaxRows
    /\ \E new \in {FRowStep(FLocals, row)} :
        /\ f_file' = Append(f_file, row)
        /\ current_location' = new.current_location
        /\ IF new.raised
           THEN \* the outer except: return {}
                /\ f_pc' = "failed"
                /\ rows_by_location' = rows_by_location
                /\ flow_data' = EmptyDict
           ELSE /\ f_pc' = "scan"
                /\ rows_by_location' = new.rows_by_location
                /\ flow_data' = flow_data
    /\ UNCHANGED <<qvars, avars, wvars, ovars>>

FLocationLine ==
    /\ f_pc = "scan"
    /\ \E row \in FRows : FIsLocationLine(row) /\ FScan(row)

FSkipTitleLine ==
    /\ f_pc = "scan"
    /\ \E row \in FRows : FIsTitleLine(row) /\ FScan(row)

FSkipBlankLine ==
    /\ f_pc = "scan"
    /\ \E row \in FRows : FIsBlankLine(row) /\ FScan(row)

FDataRow ==
    /\ f_pc = "scan"
    /\ \E row \in FRows : FIsDataRow(row) /\ FScan(row)

\* the end of the table: the sort, the truncation and the return
FReturn ==
    /\ f_pc = "scan"
    /\ w_pc = "idle"
    /\ f_pc' = "returned"
    /\ rows_by_location' = FSorted(rows_by_location)
    /\ flow_data' = FTruncate(rows_by_location)
    /\ UNCHANGED <<f_file, current_location>>
    /\ UNCHANGED <<qvars, avars, wvars, ovars>>

FInit ==
    /\ f_file = <<>>
    /\ f_pc = "scan"
    /\ current_location = None
    /\ rows_by_location = EmptyDict
    /\ flow_data = EmptyDict

\* the quality parser at rest, for the specifications that do not run it
QIdle ==
    /\ q_file = <<>>
    /\ q_pc = "idle"
    /\ current_param = None
    /\ safe_min = NoneNum
    /\ safe_max = NoneNum
    /\ rows_by_param = EmptyDict
    /\ skipped_invalid_params = 0
    /\ skipped_null_values = 0
    /\ quality_data = EmptyDict

InitFlow == FInit /\ QIdle /\ AIdle /\ WIdle /\ OIdle

NextFlow ==
    \/ FLocationLine
    \/ FSkipTitleLine
    \/ FSkipBlankLine
    \/ FDataRow
    \/ FReturn

\* process_flow_data over every table of at most MaxRows rows
SpecFlow == InitFlow /\ [][NextFlow]_vars

\* the historical load parses one of its two tables
InitParse == InitQuality \/ InitFlow

NextParse == NextQuality \/ NextFlow

\* both parsers of the historical load, each over every table of at most
\* MaxRows rows
SpecParse == InitParse /\ [][NextParse]_vars

----------------------------------------------------------------------------
(* The alert evaluators *)

\* CONFIG["SAFE_RANGES"] of app/config.py, in tenths
SAFE_RANGES ==
    (HUMIDITY :> <<300, 700>>) @@ (ETP_TDS :> <<1000, 10000>>)
    @@ (ETP_pH :> <<65, 90>>) @@ (STP_TDS :> <<1000, 10000>>)
    @@ (STP_TSS :> <<10000, 30000>>) @@ (STP_BOD :> <<0, 50>>)
    @@ (STP_pH :> <<65, 90>>) @@ (STP_COD :> <<10000, 30000>>)

\* CONFIG["SAFE_RANGES"] of app/main.py, in tenths
main_SAFE_RANGES ==
    (HUMIDITY :> <<300, 700>>) @@ (ETP_TDS :> <<1000, 10000>>)
    @@ (ETP_pH :> <<65, 90>>) @@ (STP_TDS :> <<1000, 10000>>)
    @@ (STP_TSS :> <<10000, 30000>>) @@ (STP_BOD :> <<0, 50>>)
    @@ (STP_pH :> <<65, 90>>) @@ (STP_COD :> <<10000, 30000>>)

\* RemainingDataIngestor.safe_ranges, in tenths
safe_ranges ==
    (HUMIDITY :> <<300, 700>>) @@ (ETP_TDS :> <<1000, 10000>>)
    @@ (ETP_pH :> <<65, 90>>) @@ (STP_TDS :> <<1000, 10000>>)
    @@ (STP_TSS :> <<10000, 30000>>) @@ (STP_BOD :> <<0, 50>>)
    @@ (STP_pH :> <<65, 90>>) @@ (STP_COD :> <<10000, 30000>>)

\* dict.get(param, (None, None))
RangeGet(table, param) ==
    IF param \in DOMAIN table THEN table[param] ELSE <<NoneNum, NoneNum>>

\* x < y and x <= y of two floats: False when one of them is nan
Lt(x, y) == x # NaNNum /\ y # NaNNum /\ x < y

Le(x, y) == x # NaNNum /\ y # NaNNum /\ x <= y

\* df.dropna(subset=['value'])
dropna(df) == SelectSeq(df, LAMBDA r : r.value # NaNNum)

\* alerts[:n]
Take(xs, n) == SubSeq(xs, 1, IF Len(xs) < n THEN Len(xs) ELSE n)

\* the dict show_alerts appends for a row
AlertRecord(table, r) ==
    [timestamp |-> r.timestamp,
     parameter |-> r.parameter_name,
     value |-> r.value,
     safe_min |-> table[r.parameter_name][1],
     safe_max |-> table[r.parameter_name][2]]

\* the parts of the text f"{param}: {value} (Safe: {min_val}-{max_val})"
AlertText(table, r) ==
    [parameter |-> r.parameter_name,
     value |-> r.value,
     safe_min |-> table[r.parameter_name][1],
     safe_max |-> table[r.parameter_name][2]]

\* param in CONFIG["SAFE_RANGES"] and not (min_val <= value <= max_val)
NotWithin(table, r) ==
    /\ r.parameter_name \in DOMAIN table
    /\ ~(Le(table[r.parameter_name][1], r.value)
            /\ Le(r.value, table[r.parameter_name][2]))

\* min_val and (value < min_val or value > max_val), for the range the table
\* gives or (None, None)
TruthyAndOutside(table, r) ==
    LET range == RangeGet(table, r.parameter_name)
    IN  /\ TruthyNum(range[1])
        /\ (Lt(r.value, range[1]) \/ Lt(range[2], r.value))

\* the rows show_alerts of app/main.py appends a dict for
main_flagged(df) ==
    SelectSeq(dropna(df), LAMBDA r : NotWithin(main_SAFE_RANGES, r))

\* a plausible change: the records carry the severity tag
main_show_alerts_with_severity(df) ==
    [alerts |->
        [i \in 1..Len(main_flagged(df)) |->
            LET r == main_flagged(df)[i]
                range == main_SAFE_RANGES[r.parameter_name]
            IN  [timestamp |-> r.timestamp,
                 parameter |-> r.parameter_name,
                 value |-> r.value,
                 safe_min |-> range[1],
                 safe_max |-> range[2],
                 severity |->
                    IF \/ r.value * 100 <= range[1] * 79
                       \/ r.value * 100 >= range[2] * 121
                    THEN "CRITICAL" ELSE "WARNING"]],
     raised |-> FALSE]

\* show_alerts of app/main.py: the loop that fills current_alerts
main_show_alerts(df) ==
    [alerts |->
        [i \in 1..Len(main_flagged(df)) |->
            AlertRecord(main_SAFE_RANGES, main_flagged(df)[i])],
     raised |-> FALSE]

\* show_alerts of dashwork/dash.py: the loop that fills current_alerts
dash_show_alerts(df) ==
    LET flagged == SelectSeq(dropna(df), LAMBDA r : NotWithin(SAFE_RANGES, r))
    IN  [alerts |->
            [i \in 1..Len(flagged) |-> AlertRecord(SAFE_RANGES, flagged[i])],
         raised |-> FALSE]

\* WaterChatBot.check_alerts of analytics/chatbot.py: at most five alerts
chatbot_check_alerts(df) ==
    LET flagged == SelectSeq(dropna(df), LAMBDA r : NotWithin(SAFE_RANGES, r))
    IN  [alerts |->
            Take([i \in 1..Len(flagged) |-> AlertText(SAFE_RANGES, flagged[i])],
                 5),
         raised |-> FALSE]

\* a plausible slip: the range is compared without the test of min_val, and
\* the comparison of a value with None raises TypeError
main_check_alerts_unguarded(df) ==
    IF \E i \in 1..Len(dropna(df)) :
          dropna(df)[i].parameter_name \notin DOMAIN main_SAFE_RANGES
    THEN [alerts |-> <<>>, raised |-> TRUE]
    ELSE LET flagged ==
                 SelectSeq(dropna(df),
                           LAMBDA r :
                              \/ Lt(r.value, main_SAFE_RANGES[r.parameter_name][1])
                              \/ Lt(main_SAFE_RANGES[r.parameter_name][2], r.value))
         IN  [alerts |->
                 [i \in 1..Len(flagged) |->
                     AlertText(main_SAFE_RANGES, flagged[i])],
              raised |-> FALSE]

\* WaterChatBot.check_alerts of app/main.py
main_check_alerts(df) ==
    LET flagged ==
            SelectSeq(dropna(df),
                      LAMBDA r : TruthyAndOutside(main_SAFE_RANGES, r))
    IN  [alerts |->
            [i \in 1..Len(flagged) |-> AlertText(main_SAFE_RANGES, flagged[i])],
         raised |-> FALSE]

\* record.get('location_name', 'N/A')
LocationGet(r) ==
    IF "location_name" \in DOMAIN r THEN r.location_name ELSE <<"N/A">>

\* RemainingDataIngestor.check_alerts: the alerts it prints for a batch
scheduler_check_alerts(batch) ==
    LET flagged == SelectSeq(batch, LAMBDA r : TruthyAndOutside(safe_ranges, r))
    IN  [alerts |->
            [i \in 1..Len(flagged) |->
                [parameter |-> flagged[i].parameter_name,
                 value |-> flagged[i].value,
                 safe_min |-> safe_ranges[flagged[i].parameter_name][1],
                 safe_max |-> safe_ranges[flagged[i].parameter_name][2],
                 location |-> LocationGet(flagged[i])]],
         raised |-> FALSE]

\* a parameter name that is in no table
Chlorine == <<"Chlorine">>

\* the parameters the readings of the model are of
ReadingParameters == {ETP_pH, STP_BOD, HUMIDITY}

\* the values around the bounds of a range: at 79% of the minimum or less,
\* just below the minimum, the minimum, the maximum, just above the maximum,
\* at 121% of the maximum or more
ReadingValues(range) ==
    { (range[1] * 79) \div 100, range[1] - 1, range[1],
      range[2], range[2] + 1, (range[2] * 121 + 99) \div 100 }

\* the rows of water_quality the model draws from: parameter and value
Readings ==
    UNION {{[parameter_name |-> p, value |-> v] :
                v \in ReadingValues(SAFE_RANGES[p])} : p \in ReadingParameters}
    \cup {[parameter_name |-> Chlorine, value |-> 50],
          [parameter_name |-> Chlorine, value |-> 5000],
          [parameter_name |-> ETP_pH, value |-> NaNNum]}

\* the rows as fetched: each with its timestamp, here its position
Stamped(rows) ==
    [i \in 1..Len(rows) |->
        [timestamp |-> i, parameter_name |-> rows[i].parameter_name,
         value |-> rows[i].value]]

\* the results of a fetch of at most MaxBatch rows
Fetched ==
    {Stamped(rows) : rows \in UNION {[1..n -> Readings] : n \in 0..MaxBatch}}

\* an evaluator runs over the fetched rows
Evaluate(name, out) ==
    /\ a_pc = "fetched"
    /\ evaluator' = name
    /\ alerts' = out.alerts
    /\ a_pc' = IF out.raised THEN "failed" ELSE "done"
    /\ UNCHANGED <<quality_df, qvars, fvars, wvars, ovars>>

MainShowAlerts ==
    /\ a_pc = "fetched"
    /\ Evaluate("main.show_alerts", main_show_alerts(quality_df))

DashShowAlerts ==
    /\ a_pc = "fetched"
    /\ Evaluate("dash.show_alerts", dash_show_alerts(quality_df))

ChatbotCheckAlerts ==
    /\ a_pc = "fetched"
    /\ Evaluate("chatbot.check_alerts", chatbot_check_alerts(quality_df))

MainCheckAlerts ==
    /\ a_pc = "fetched"
    /\ Evaluate("main.check_alerts", main_check_alerts(quality_df))

SchedulerCheckAlerts ==
    /\ a_pc = "fetched"
    /\ Evaluate("scheduler.check_alerts", scheduler_check_alerts(quality_df))

AInit ==
    /\ quality_df \in Fetched
    /\ a_pc = "fetched"
    /\ evaluator = "none"
    /\ alerts = <<>>

InitAlerts == AInit /\ QIdle /\ FIdle /\ WIdle /\ OIdle

NextAlerts ==
    \/ MainShowAlerts
    \/ DashShowAlerts
    \/ ChatbotCheckAlerts
    \/ MainCheckAlerts
    \/ SchedulerCheckAlerts

\* every alert evaluator over every fetch of at most MaxBatch rows
SpecAlerts == InitAlerts /\ [][NextAlerts]_vars

----------------------------------------------------------------------------
(* The writers of the flow_rate table *)

\* the records of the groups of a dict, in no order
Records(groups) ==
    {groups[k][i] : <<k, i>> \in
        UNION {{<<k, i>> : i \in 1..Len(groups[k])} : k \in DOMAIN groups}}

\* not col, for col = str(cell): a missing cell reads "nan"
StrEmpty(cell) == cell.t = "text" /\ cell.s = <<>>

\* col_a.startswith("Location Name:"), for col_a = str(row[0])
SIsLocationLine(row) ==
    /\ row[1].t = "text"
    /\ row[1].s # <<>>
    /\ Head(row[1].s) = LocationMarker

\* float(col_c), for col_c = str(row[2]): a missing cell reads "nan"
SFloat(cell) ==
    IF isna(cell) THEN Ok(NaNNum)
    ELSE IF IsFloat(cell) THEN Ok(FloatOf(cell))
    ELSE Raised

\* one iteration of "for idx in range(start_idx, total_rows)"
SRowStep(st, row) ==
    IF SIsLocationLine(row)
    THEN [st EXCEPT !.current_location =
                        Strip(SelectSeq(row[1].s, LAMBDA t : t # LocationMarker))]
    ELSE IF \/ StrEmpty(row[1]) \/ StrEmpty(row[2]) \/ StrEmpty(row[3])
            \/ (row[1].t = "text" /\ row[1].s = <<"########">>)
    THEN st
    ELSE IF ~to_datetime(row[1], row[2]).ok \/ ~SFloat(row[3]).ok THEN st
    ELSE [st EXCEPT !.rows_by_loc =
                        AppendTo(@, st.current_location,
                                 [timestamp |-> to_datetime(row[1], row[2]).v,
                                  location_name |-> st.current_location,
                                  totalizer |-> SFloat(row[3]).v])]

\* the loop over the rows idx..total_rows-1, counted from 0
RECURSIVE SLoop(_, _, _)
SLoop(file, idx, st) ==
    IF idx >= Len(file) THEN st
    ELSE SLoop(file, idx + 1, SRowStep(st, file[idx + 1]))

\* RemainingDataIngestor.process_flow_chunks: the groups its chunks are cut
\* from
process_flow_chunks(file) ==
    SLoop(file, Cutoff(Len(file)),
          [current_location |-> None, rows_by_loc |-> EmptyDict]).rows_by_loc

\* RealtimeSimulator.locations
locations ==
    {CorporationWater, GroundWaterSource1, GroundWaterSource2,
     IndustrialProcess, TankerWaterSupply}

\* datetime.now(), after every timestamp of the tables
Now == Stamp(1, 12)

\* round(random.uniform(1000, 5000), 2): the ends of the interval
SimTotalizers == {1000, 5000}

\* run_full_ingestion, steps 3 and 4: the historical groups of the flow
\* table are flattened and inserted
InsertFlowData ==
    /\ w_pc = "idle"
    /\ f_pc = "returned"
    /\ w_pc' = "handed"
    /\ writer' = "preload_historical"
    /\ flow_records' = Records(flow_data)
    /\ UNCHANGED <<qvars, fvars, avars, ovars>>

\* run_ingestion_cycle, flow part: every chunk of process_flow_chunks is
\* upserted
IngestFlowChunks ==
    /\ w_pc = "idle"
    /\ f_pc = "returned"
    /\ w_pc' = "handed"
    /\ writer' = "scheduler"
    /\ flow_records' = Records(process_flow_chunks(f_file))
    /\ UNCHANGED <<qvars, fvars, avars, ovars>>

\* run_simulation, one turn: the flow_data of simulate_readings is inserted;
\* the simulator reads no table
SimulateReadings ==
    /\ w_pc = "idle"
    /\ f_pc = "idle"
    /\ w_pc' = "handed"
    /\ writer' = "simulate_realtime"
    /\ \E totalizer \in [locations -> SimTotalizers] :
          flow_records' =
              {[timestamp |-> Now, location_name |-> location,
                totalizer |-> totalizer[location]] : location \in locations}
    /\ UNCHANGED <<qvars, fvars, avars, ovars>>

\* a flow table is about to be read, or there is none
InitWriters == (FInit \/ FIdle) /\ QIdle /\ AIdle /\ WIdle /\ OIdle

NextWriters ==
    \/ NextFlow
    \/ InsertFlowData
    \/ IngestFlowChunks
    \/ SimulateReadings

\* the three writers of flow_rate, the two that read a table over every table
\* of at most MaxRows rows
SpecWriters == InitWriters /\ [][NextWriters]_vars

----------------------------------------------------------------------------
(* RemainingDataIngestor: the incremental ingestor, quality part *)

\* the longest head and the longest tail a table of the ingestor is made of
MaxHead == 12

MaxTail == 3

\* chunk_size of get_remaining_data_chunks, scaled down from 10
chunk_size == 1

\* RemainingDataIngestor.normalize_parameter_name: no spacing step and no
\* validation against the allow-list
scheduler_normalize_parameter_name(raw_name) ==
    LET c1 == RemoveNumbering(RStrip(Strip(raw_name), {","}))
        c2 == IF Contains(c1, SafeRangeMarker)
              THEN Strip(Split(c1, SafeRangeMarker)[1])
              ELSE c1
    IN  name_mapping_get(Strip(RemoveNonWord(c2)))

\* RemainingDataIngestor.locations, in list order
scheduler_locations ==
    <<CorporationWater, GroundWaterSource1, GroundWaterSource2,
      IndustrialProcess, TankerWaterSupply>>

\* the values random.random() returns, in hundredths
RandomDraws == <<0, 99, 50>>

\* the states the random generator may start in
Seeds == {0, 1}

\* the n-th value random.random() returns after the generator started in
\* state seed
random(seed, n) == RandomDraws[((seed + n) % Len(RandomDraws)) + 1]

\* value * (0.9 + 0.2 * r) for r in hundredths, rounded down to tenths
Varied(value, r) == (value * (450 + r)) \div 500

\* the locals of the loop of get_remaining_data_chunks; keys: the keys of
\* rows_by_param_loc in insertion order; draws: the calls of random.random()
\* made; raised: an exception has left the generator
ILocals(seed) ==
    [current_param |-> None, safe_min |-> NoneNum, safe_max |-> NoneNum,
     rows_by_param_loc |-> EmptyDict, keys |-> <<>>, seed |-> seed,
     draws |-> 0, raised |-> FALSE]

\* the handling of a "Safe Range:" line: the range is parsed outside any try
IParameterStep(st, line) ==
    LET cp == scheduler_normalize_parameter_name(
                  Strip(Split(line, SafeRangeMarker)[1]))
        range == ParseSafeRange(line)
    IN  IF ~TruthyText(cp) THEN [st EXCEPT !.current_param = cp]
        ELSE IF range.ok
        THEN [st EXCEPT !.current_param = cp,
                        !.safe_min = range.v[1], !.safe_max = range.v[2]]
        ELSE [st EXCEPT !.current_param = cp, !.raised = TRUE]

\* the record appended for a data row and the l-th location
IRecord(st, row, l) ==
    [timestamp |-> to_datetime(row[1], row[2]).v,
     parameter_name |-> st.current_param,
     location_name |-> scheduler_locations[l],
     value |-> Varied(FloatOf(row[3]), random(st.seed, st.draws + l)),
     safe_min |-> st.safe_min,
     safe_max |-> st.safe_max]

\* a plausible slip: the record is appended for the first location only
IDistributeFirstOnly(st, row) ==
    LET key == <<st.current_param, scheduler_locations[1]>>
    IN  [st EXCEPT !.rows_by_param_loc = AppendTo(@, key, IRecord(st, row, 1)),
                   !.keys = IF key \in DOMAIN st.rows_by_param_loc
                            THEN @ ELSE Append(@, key),
                   !.draws = @ + 1]

\* "for location in self.locations": one record appended under every
\* (current_param, location)
IDistribute(st, row) ==
    LET n == Len(scheduler_locations)
        key(l) == <<st.current_param, scheduler_locations[l]>>
        old == st.rows_by_param_loc
        isnew == key(1) \notin DOMAIN old
    IN  [st EXCEPT
            !.rows_by_param_loc =
                [k \in DOMAIN old \cup {key(l) : l \in 1..n} |->
                    (IF k \in DOMAIN old THEN old[k] ELSE <<>>)
                    \o (IF k[1] = st.current_param
                        THEN <<IRecord(st, row,
                                       CHOOSE l \in 1..n : key(l) = k)>>
                        ELSE <<>>)],
            !.keys = IF isnew THEN @ \o [l \in 1..n |-> key(l)] ELSE @,
            !.draws = @ + n]

\* the handling of a data row: the try block and its except
IDataStep(st, row) ==
    IF ~TruthyText(st.current_param)
          \/ isna(row[1]) \/ isna(row[2]) \/ isna(row[3])
    THEN st
    ELSE IF ~to_datetime(row[1], row[2]).ok THEN st
    ELSE IF ~IsFloat(row[3]) THEN st
    ELSE IF ~isfinite(row[3]) THEN st
    ELSE IDistribute(st, row)

\* one iteration of "for idx in range(start_idx, total_rows)"
IRowStep(st, row) ==
    IF QIsEmptyLine(row) THEN st
    ELSE IF QIsParameterLine(row) THEN IParameterStep(st, Line(row[1]))
    ELSE IF QIsHeaderLine(row) THEN st
    ELSE IDataStep(st, row)

\* the loop over the rows idx..total_rows-1, counted from 0
RECURSIVE ILoop(_, _, _)
ILoop(file, idx, st) ==
    IF idx >= Len(file) \/ st.raised THEN st
    ELSE ILoop(file, idx + 1, IRowStep(st, file[idx + 1]))

\* records[i:i + size] for i in range(0, len(records), size)
RECURSIVE Chunks(_, _)
Chunks(records, size) ==
    IF records = <<>> THEN <<>>
    ELSE <<Take(records, size)>>
            \o Chunks(SubSeq(records, size + 1, Len(records)), size)

\* the chunks of every key, in the order of rows_by_param_loc.items()
RECURSIVE AllChunks(_, _, _)
AllChunks(rows, keys, size) ==
    IF keys = <<>> THEN <<>>
    ELSE Chunks(rows[Head(keys)], size) \o AllChunks(rows, Tail(keys), size)

\* the loop of process_water_quality_data over a whole table
RECURSIVE QLoop(_, _, _)
QLoop(file, i, st) ==
    IF i > Len(file) \/ st.raised THEN st
    ELSE QLoop(file, i + 1, QRowStep(st, file[i]))

\* SupabaseRestIngestion.process_water_quality_data: the groups it returns
process_water_quality_data(file) ==
    LET st == QLoop(file, 1,
                    [current_param |-> None, safe_min |-> NoneNum,
                     safe_max |-> NoneNum, rows_by_param |-> EmptyDict,
                     skipped_invalid_params |-> 0, skipped_null_values |-> 0,
                     raised |-> FALSE])
    IN  IF st.raised THEN EmptyDict ELSE QTruncate(st.rows_by_param)

\* the parameter definition line "1. ETP(pH) Safe Range: (6.5 to 9.0)"
ETPpHLine ==
    <<"1", ".", " ", "ETP", "(", "pH", ")", " ", SafeRangeMarker, " ",
      "(", "6.5", " ", "to", " ", "9.0", ")">>

\* the row "01-06-2025, 08:30:00, 7.2"
FirstOfJuneRow == <<DateCell(1, 6), TimeCell, Num(72)>>

\* the rows the tail of a table of the ingestor is made of
IRows ==
    { <<Text(l), NaN, NaN>> : l \in QParameterLines }
        \cup { FirstOfJuneRow,
               <<DateCell(6, 1), TimeCell, Num(95)>>,
               <<DateCell(1, 6), TimeCell, Text(<<"abc">>)>> }

\* the head of a table: a parameter line, a title line and data rows
IHead(n) ==
    [i \in 1..n |->
        IF i = 1 THEN <<Text(ETPpHLine), NaN, NaN>>
        ELSE IF i = 2
        THEN <<Text(<<"Date">>), Text(<<"Time">>), Text(<<"Parameter">>)>>
        ELSE IF i % 2 = 1 THEN FirstOfJuneRow
        ELSE <<DateCell(6, 1), TimeCell, Num(95)>>]

\* the tables: a head of at most MaxHead rows and a tail of at most MaxTail
\* rows
IFiles ==
    {IHead(n) \o t :
        n \in 0..MaxHead, t \in UNION {[1..m -> IRows] : m \in 0..MaxTail}}

\* the historical load has read the table (run_full_ingestion, step 1)
PreloadQuality ==
    /\ i_pc = "start"
    /\ i_pc' = "preloaded"
    /\ i_historical' = process_water_quality_data(i_file)
    /\ UNCHANGED <<i_file, i_seed, i_param, rows_by_param_loc, i_keys,
                   i_chunks, i_submitted>>
    /\ UNCHANGED <<pvars, tvars, dvars, svars>>

\* the first next() of the generator: the whole loop runs before the first
\* yield; an exception leaves the generator and run_ingestion_cycle
GetRemainingDataChunks ==
    /\ i_pc = "preloaded"
    /\ \E st \in {ILoop(i_file, Cutoff(Len(i_file)), ILocals(i_seed))} :
          IF st.raised
          THEN /\ i_pc' = "crashed"
               /\ UNCHANGED <<i_param, rows_by_param_loc, i_keys, i_chunks>>
          ELSE /\ i_pc' = "yielding"
               /\ i_param' = st.current_param
               /\ rows_by_param_loc' = st.rows_by_param_loc
               /\ i_keys' = st.keys
               /\ i_chunks' = AllChunks(st.rows_by_param_loc, st.keys,
                                        chunk_size)
    /\ UNCHANGED <<i_file, i_seed, i_historical, i_submitted>>
    /\ UNCHANGED <<pvars, tvars, dvars, svars>>

\* a chunk is yielded and handed to ingest_batch
IngestBatch ==
    /\ i_pc = "yielding"
    /\ i_chunks # <<>>
    /\ i_chunks' = Tail(i_chunks)
    /\ i_submitted' = IF Head(i_chunks) # <<>>
                      THEN Append(i_submitted, Head(i_chunks))
                      ELSE i_submitted
    /\ UNCHANGED <<i_file, i_seed, i_pc, i_historical, i_param,
                   rows_by_param_loc, i_keys>>
    /\ UNCHANGED <<pvars, tvars, dvars, svars>>

\* the generator is exhausted
QualityChunksDone ==
    /\ i_pc = "yielding"
    /\ i_chunks = <<>>
    /\ i_pc' = "done"
    /\ UNCHANGED <<i_file, i_seed, i_historical, i_param, rows_by_param_loc,
                   i_keys, i_chunks, i_submitted>>
    /\ UNCHANGED <<pvars, tvars, dvars, svars>>

IInit ==
    /\ i_file \in IFiles
    /\ i_seed \in Seeds
    /\ i_pc = "start"
    /\ i_historical = EmptyDict
    /\ i_param = None
    /\ rows_by_param_loc = EmptyDict
    /\ i_keys = <<>>
    /\ i_chunks = <<>>
    /\ i_submitted = <<>>

InitIncremental ==
    IInit /\ QIdle /\ FIdle /\ AIdle /\ WIdle /\ TIdle /\ DIdle /\ SIdle
    /\ CIdle /\ NIdle

NextIncremental ==
    \/ PreloadQuality
    \/ GetRemainingDataChunks
    \/ IngestBatch
    \/ QualityChunksDone

\* the historical load and one cycle of the incremental ingestor over the
\* same quality table
SpecIncremental == InitIncremental /\ [][NextIncremental]_vars

----------------------------------------------------------------------------
(* The store and SupabaseRestIngestion.run_full_ingestion *)

\* batch_size of insert_data_batch, scaled down from 1000
batch_size == 2

\* the number of requests of a run that may fail
MaxFaults == 1

\* the turns of run_simulation
MaxTicks == 2

\* the outcomes of a request: the store accepts it, the store answers with an
\* error status, or the call raises (no connection, timeout)
Outcomes == IF faults > 0 THEN {"accepted", "rejected", "raised"} ELSE {"accepted"}

\* the failures left after a request with that outcome
FaultsAfter(outcome) == IF outcome = "accepted" THEN faults ELSE faults - 1

\* the clear_existing_data call has returned
DeleteStepDone == d_pc \notin {"off", "start", "clear_quality", "clear_flow"}

\* a plausible change: the rows are upserted on (timestamp, parameter_name or
\* location_name): a row of the data replaces the rows of the same key
upsert(rows, data) ==
    LET key(r) ==
            <<r.timestamp,
              IF "parameter_name" \in DOMAIN r THEN r.parameter_name
              ELSE r.location_name>>
        all == rows \o data
        last == {i \in 1..Len(all) :
                    \A j \in (i + 1)..Len(all) : key(all[j]) # key(all[i])}
    IN  [n \in 1..Cardinality(last) |->
            all[CHOOSE i \in last : Cardinality({j \in last : j <= i}) = n]]

\* POST /rest/v1/<table> and table(...).insert(data): the rows are added
insert(rows, data) == rows \o data

\* the rows accepted after the delete step, with the data just accepted
Accepted(table, data) ==
    IF DeleteStepDone THEN [t_accepted EXCEPT ![table] = @ \o data]
    ELSE t_accepted

\* the loop of process_flow_data over a whole table
RECURSIVE FLoop(_, _, _)
FLoop(file, i, st) ==
    IF i > Len(file) \/ st.raised THEN st
    ELSE FLoop(file, i + 1, FRowStep(st, file[i]))

\* SupabaseRestIngestion.process_flow_data: the groups it returns
process_flow_data(file) ==
    LET st == FLoop(file, 1,
                    [current_location |-> None, rows_by_location |-> EmptyDict,
                     raised |-> FALSE])
    IN  IF st.raised THEN EmptyDict ELSE FTruncate(st.rows_by_location)

\* the first n rows of the flow CSV: a location line, a title line and data
\* rows
FHead(n) ==
    [i \in 1..n |->
        IF i = 1
        THEN <<Text(<<LocationMarker, " ", "Corporation Water">>), NaN, NaN>>
        ELSE IF i = 2
        THEN <<Text(<<"Date">>), Text(<<"Time">>), Text(<<"Totalizer">>)>>
        ELSE IF i % 2 = 1 THEN <<DateCell(1, 6), TimeCell, Num(12345)>>
        ELSE <<DateCell(6, 1), TimeCell, Num(10000)>>]

\* the numbers of rows the two CSV files of a run may have
DriverRows == {0, 3, 6, 7}

\* all_quality_records / all_flow_records: the groups of a dict, one after
\* the other (the files of a run have one section, so one key)
RECURSIVE Extend(_, _)
Extend(groups, keys) ==
    IF keys = {} THEN <<>>
    ELSE LET k == CHOOSE x \in keys : TRUE
         IN  groups[k] \o Extend(groups, keys \ {k})

\* a plausible slip: the slice runs one record into the next batch
BatchAtOverlapping(data, i, size) ==
    SubSeq(data, i + 1, IF i + size + 1 < Len(data) THEN i + size + 1 ELSE Len(data))

\* data[i:i + batch_size]
BatchAt(data, i, size) ==
    SubSeq(data, i + 1, IF i + size < Len(data) THEN i + size ELSE Len(data))

\* a plausible slip: the data are processed without clearing the tables
AfterConnectionNoClear(clear) == "process_quality"

\* "if clear_existing: self.clear_existing_data()"
AfterConnection(clear) == IF clear THEN "clear_quality" ELSE "process_quality"

\* a request of the driver, as it is logged: the rows a POST carries, the
\* rows a DELETE removes
Request(method, table, rows, outcome) ==
    [method |-> method, table |-> table, rows |-> rows, outcome |-> outcome]

\* a plausible slip: the result of test_connection is not looked at
AfterTestIgnored(outcome, clear) == AfterConnection(clear)

\* "if not self.test_connection(): raise Exception(...)": test_connection
\* returns True on status 200 only, False on any other status and when the
\* call raises
AfterTest(outcome, clear) ==
    IF outcome = "accepted" THEN AfterConnection(clear) ELSE "failed"

\* test_connection: any failure makes run_full_ingestion raise
TestConnection ==
    /\ d_pc = "start"
    /\ \E outcome \in Outcomes :
          /\ faults' = FaultsAfter(outcome)
          /\ d_pc' = AfterTest(outcome, d_clear)
    /\ UNCHANGED <<water_quality, flow_rate, t_accepted>>
    /\ UNCHANGED <<d_clear, d_rows, d_data, d_i, d_total, d_requests>>
    /\ UNCHANGED <<pvars, ivars, svars>>

\* clear_existing_data, first request: the status is printed, not tested; a
\* call that raises makes run_full_ingestion raise
ClearWaterQuality ==
    /\ d_pc = "clear_quality"
    /\ \E outcome \in Outcomes :
          /\ faults' = FaultsAfter(outcome)
          /\ water_quality' = IF outcome = "accepted" THEN <<>>
                              ELSE water_quality
          /\ d_pc' = IF outcome = "raised" THEN "failed" ELSE "clear_flow"
          /\ d_requests' =
                Append(d_requests,
                       Request("DELETE", "water_quality",
                               IF outcome = "accepted" THEN water_quality
                               ELSE <<>>, outcome))
    /\ UNCHANGED <<flow_rate, t_accepted>>
    /\ UNCHANGED <<d_clear, d_rows, d_data, d_i, d_total>>
    /\ UNCHANGED <<pvars, ivars, svars>>

\* clear_existing_data, second request
ClearFlowRate ==
    /\ d_pc = "clear_flow"
    /\ \E outcome \in Outcomes :
          /\ faults' = FaultsAfter(outcome)
          /\ flow_rate' = IF outcome = "accepted" THEN <<>> ELSE flow_rate
          /\ d_pc' = IF outcome = "raised" THEN "failed" ELSE "process_quality"
          /\ d_requests' =
                Append(d_requests,
                       Request("DELETE", "flow_rate",
                               IF outcome = "accepted" THEN flow_rate
                               ELSE <<>>, outcome))
    /\ UNCHANGED <<water_quality, t_accepted>>
    /\ UNCHANGED <<d_clear, d_rows, d_data, d_i, d_total>>
    /\ UNCHANGED <<pvars, ivars, svars>>

\* steps 1 and 2 up to the call of insert_data_batch
ProcessQuality ==
    /\ d_pc = "process_quality"
    /\ \E quality_data_ \in {process_water_quality_data(IHead(d_rows))} :
          IF quality_data_ # EmptyDict
          THEN /\ d_pc' = "insert_quality"
               /\ d_data' = Extend(quality_data_, DOMAIN quality_data_)
               /\ d_i' = 0
               /\ d_total' = 0
          ELSE /\ d_pc' = "process_flow"
               /\ UNCHANGED <<d_data, d_i, d_total>>
    /\ UNCHANGED <<d_clear, d_rows, d_requests>>
    /\ UNCHANGED <<pvars, ivars, tvars, svars>>

\* steps 3 and 4 up to the call of insert_data_batch
ProcessFlow ==
    /\ d_pc = "process_flow"
    /\ \E flow_data_ \in {process_flow_data(FHead(d_rows))} :
          IF flow_data_ # EmptyDict
          THEN /\ d_pc' = "insert_flow"
               /\ d_data' = Extend(flow_data_, DOMAIN flow_data_)
               /\ d_i' = 0
               /\ d_total' = 0
          ELSE /\ d_pc' = "verify"
               /\ UNCHANGED <<d_data, d_i, d_total>>
    /\ UNCHANGED <<d_clear, d_rows, d_requests>>
    /\ UNCHANGED <<pvars, ivars, tvars, svars>>

\* the position after insert_data_batch has returned
AfterInsert == IF d_pc = "insert_quality" THEN "process_flow" ELSE "verify"

\* one turn of the loop of insert_data_batch: a batch is posted; an error
\* status is printed and the loop goes on; a call that raises is caught
\* outside the loop, which ends insert_data_batch with 0
PostBatch(table) ==
    /\ d_i < Len(d_data)
    /\ \E outcome \in Outcomes, batch \in {BatchAt(d_data, d_i, batch_size)} :
          /\ faults' = FaultsAfter(outcome)
          /\ d_requests' =
                Append(d_requests, Request("POST", table, batch, outcome))
          /\ water_quality' =
                IF table = "water_quality" /\ outcome = "accepted"
                THEN insert(water_quality, batch) ELSE water_quality
          /\ flow_rate' =
                IF table = "flow_rate" /\ outcome = "accepted"
                THEN insert(flow_rate, batch) ELSE flow_rate
          /\ t_accepted' = IF outcome = "accepted" THEN Accepted(table, batch)
                           ELSE t_accepted
          /\ IF outcome = "raised"
             THEN /\ d_pc' = AfterInsert
                  /\ d_total' = 0
                  /\ d_i' = d_i
             ELSE /\ d_pc' = d_pc
                  /\ d_total' = IF outcome = "accepted"
                                THEN d_total + Len(batch) ELSE d_total
                  /\ d_i' = d_i + batch_size
    /\ UNCHANGED <<d_clear, d_rows, d_data>>
    /\ UNCHANGED <<pvars, ivars, svars>>

PostQualityBatch == d_pc = "insert_quality" /\ PostBatch("water_quality")

PostFlowBatch == d_pc = "insert_flow" /\ PostBatch("flow_rate")

\* the loop of insert_data_batch has ended: return total_inserted
InsertReturn ==
    /\ d_pc \in {"insert_quality", "insert_flow"}
    /\ d_i >= Len(d_data)
    /\ d_pc' = AfterInsert
    /\ UNCHANGED <<d_clear, d_rows, d_data, d_i, d_total, d_requests>>
    /\ UNCHANGED <<pvars, ivars, tvars, svars>>

\* step 5: verify_data reads two counts; its failures are caught and printed
VerifyData ==
    /\ d_pc = "verify"
    /\ d_pc' = "done"
    /\ UNCHANGED <<d_clear, d_rows, d_data, d_i, d_total, d_requests>>
    /\ UNCHANGED <<pvars, ivars, tvars, svars>>

NextDriver ==
    \/ TestConnection
    \/ ClearWaterQuality
    \/ ClearFlowRate
    \/ ProcessQuality
    \/ PostQualityBatch
    \/ ProcessFlow
    \/ PostFlowBatch
    \/ InsertReturn
    \/ VerifyData

\* a row of water_quality and a row of flow_rate of an earlier run
OldQualityRow ==
    [timestamp |-> Stamp(1, 1), parameter_name |-> STP_pH, value |-> 70,
     safe_min |-> 65, safe_max |-> 90]

OldFlowRow ==
    [timestamp |-> Stamp(1, 1), location_name |-> TankerWaterSupply,
     totalizer |-> 9000]

\* the store before a run: empty, or with rows of an earlier run
TInit ==
    /\ \/ water_quality = <<>> /\ flow_rate = <<>>
       \/ water_quality = <<OldQualityRow>> /\ flow_rate = <<OldFlowRow>>
    /\ faults \in 0..MaxFaults
    /\ t_accepted = [water_quality |-> <<>>, flow_rate |-> <<>>]

DInit ==
    /\ d_pc = "start"
    /\ d_clear \in BOOLEAN
    /\ d_rows \in DriverRows
    /\ d_data = <<>>
    /\ d_i = 0
    /\ d_total = 0
    /\ d_requests = <<>>

InitDriver ==
    TInit /\ DInit /\ SIdle /\ IIdle /\ CIdle /\ NIdle /\ QIdle /\ FIdle /\ AIdle /\ WIdle

\* run_full_ingestion alone against the store
SpecDriver == InitDriver /\ [][NextDriver]_vars

----------------------------------------------------------------------------
(* RealtimeDataSimulator.run_simulation *)

\* self.parameters and self.locations of the simulator, in list order
simulator_parameters ==
    <<HUMIDITY, ETP_TDS, ETP_pH, STP_TDS, STP_TSS, STP_BOD, STP_pH, STP_COD>>

simulator_locations ==
    <<CorporationWater, GroundWaterSource1, GroundWaterSource2,
      IndustrialProcess, TankerWaterSupply>>

\* self.safe_ranges of the simulator, in tenths
simulator_safe_ranges ==
    (HUMIDITY :> <<300, 700>>) @@ (ETP_TDS :> <<1000, 10000>>)
    @@ (ETP_pH :> <<65, 90>>) @@ (STP_TDS :> <<1000, 10000>>)
    @@ (STP_TSS :> <<10000, 30000>>) @@ (STP_BOD :> <<0, 50>>)
    @@ (STP_pH :> <<65, 90>>) @@ (STP_COD :> <<10000, 30000>>)

\* the seeds of the simulator's generator
SimSeeds == {0, 1, 2}

\* random.uniform(lo, hi), from a draw in hundredths
uniform(lo, hi, r) == lo + ((hi - lo) * r) \div 100

\* the factor, in tenths, of the location: "Ground Water" in location gives
\* 0.9, "Industrial" in location 1.1
LocationBias(location) ==
    IF location \in {GroundWaterSource1, GroundWaterSource2} THEN 9
    ELSE IF location = IndustrialProcess THEN 11
    ELSE 10

\* generate_realistic_value, the draws taken from position n of the generator
generate_realistic_value(param, location, seed, n) ==
    LET base_value ==
            (uniform(simulator_safe_ranges[param][1],
                     simulator_safe_ranges[param][2], random(seed, n))
             * LocationBias(location)) \div 10
    IN  IF random(seed, n + 1) < 5
        THEN (base_value * (IF random(seed, n + 2) < 50 THEN 8 ELSE 12)) \div 10
        ELSE base_value

\* the dict appended to quality_data
QualityReading(timestamp, param, location, seed, n) ==
    [timestamp |-> timestamp, parameter_name |-> param,
     value |-> generate_realistic_value(param, location, seed, n),
     safe_min |-> simulator_safe_ranges[param][1],
     safe_max |-> simulator_safe_ranges[param][2]]

\* the dict appended to flow_data
FlowReading(timestamp, location, seed, n) ==
    [timestamp |-> timestamp, location_name |-> location,
     totalizer |-> uniform(10000, 50000, random(seed, n))]

\* the draws one call of simulate_readings may take
DrawsPerTick == 3 * 40 + 5

\* simulate_readings: quality_data, location by location and parameter by
\* parameter
simulate_quality(timestamp, seed, tick) ==
    [k \in 1..(Len(simulator_locations) * Len(simulator_parameters)) |->
        QualityReading(
            timestamp,
            simulator_parameters[((k - 1) % Len(simulator_parameters)) + 1],
            simulator_locations[((k - 1) \div Len(simulator_parameters)) + 1],
            seed, tick * DrawsPerTick + 3 * (k - 1))]

\* simulate_readings: flow_data, location by location
simulate_flow(timestamp, seed, tick) ==
    [l \in 1..Len(simulator_locations) |->
        FlowReading(timestamp, simulator_locations[l], seed,
                    tick * DrawsPerTick + 3 * 40 + (l - 1))]

\* quality_data, flow_data = self.simulate_readings()
SimReadings ==
    /\ s_pc = "loop"
    /\ s_ticks < MaxTicks
    /\ s_quality' = simulate_quality(Now + s_ticks, s_seed, s_ticks)
    /\ s_flow' = simulate_flow(Now + s_ticks, s_seed, s_ticks)
    /\ s_ticks' = s_ticks + 1
    /\ s_pc' = "insert_quality"
    /\ UNCHANGED <<s_seed, s_requests>>
    /\ UNCHANGED <<pvars, ivars, tvars, dvars>>

\* self.insert_data(quality_data, "water_quality"): a failure is printed
SimInsertQuality ==
    /\ s_pc = "insert_quality"
    /\ \E outcome \in Outcomes :
          /\ faults' = FaultsAfter(outcome)
          /\ water_quality' = IF outcome = "accepted"
                              THEN insert(water_quality, s_quality)
                              ELSE water_quality
          /\ t_accepted' = IF outcome = "accepted"
                           THEN Accepted("water_quality", s_quality)
                           ELSE t_accepted
          /\ s_requests' =
                Append(s_requests,
                       Request("POST", "water_quality", s_quality, outcome))
    /\ s_pc' = "insert_flow"
    /\ UNCHANGED flow_rate
    /\ UNCHANGED <<s_seed, s_ticks, s_quality, s_flow>>
    /\ UNCHANGED <<pvars, ivars, dvars>>

\* self.insert_data(flow_data, "flow_rate"), then time.sleep(interval)
SimInsertFlow ==
    /\ s_pc = "insert_flow"
    /\ \E outcome \in Outcomes :
          /\ faults' = FaultsAfter(outcome)
          /\ flow_rate' = IF outcome = "accepted"
                          THEN insert(flow_rate, s_flow)
                          ELSE flow_rate
          /\ t_accepted' = IF outcome = "accepted"
                           THEN Accepted("flow_rate", s_flow)
                           ELSE t_accepted
          /\ s_requests' =
                Append(s_requests, Request("POST", "flow_rate", s_flow, outcome))
    /\ s_pc' = "loop"
    /\ UNCHANGED water_quality
    /\ UNCHANGED <<s_seed, s_ticks, s_quality, s_flow>>
    /\ UNCHANGED <<pvars, ivars, dvars>>

NextSimulator ==
    \/ SimReadings
    \/ SimInsertQuality
    \/ SimInsertFlow

SInit ==
    /\ s_pc = "loop"
    /\ s_seed \in SimSeeds
    /\ s_ticks = 0
    /\ s_quality = <<>>
    /\ s_flow = <<>>
    /\ s_requests = <<>>

InitSimulator ==
    TInit /\ SInit /\ DIdle /\ IIdle /\ CIdle /\ NIdle /\ QIdle /\ FIdle /\ AIdle /\ WIdle

\* run_simulation alone against the store
SpecSimulator == InitSimulator /\ [][NextSimulator]_vars

\* the simulator under way and a full-refresh run of the driver started
InitConcurrent ==
    /\ TInit /\ SInit /\ DInit /\ IIdle /\ CIdle /\ NIdle /\ QIdle /\ FIdle /\ AIdle /\ WIdle
    /\ s_seed = 0
    /\ d_clear
    /\ d_rows = 6

NextConcurrent == NextDriver \/ NextSimulator

\* run_simulation and run_full_ingestion against the same store, their
\* requests interleaved in any order
SpecConcurrent == InitConcurrent /\ [][NextConcurrent]_vars

----------------------------------------------------------------------------
(* WaterChatBot: parse_query_intent, fetch_data, check_alerts *)

\* the questions asked in a session
MaxQuestions == 2

\* "< 300": the seconds a cached result is valid
CACHE_SECONDS == 300

\* time_keywords, in the order of the dict, the deltas in seconds
time_keywords ==
    <<[keyword |-> "today", delta |-> 86400],
      [keyword |-> "yesterday", delta |-> 172800],
      [keyword |-> "last hour", delta |-> 3600],
      [keyword |-> "last 24 hours", delta |-> 86400],
      [keyword |-> "last week", delta |-> 604800],
      [keyword |-> "recent", delta |-> 21600],
      [keyword |-> "now", delta |-> 3600],
      [keyword |-> "current", delta |-> 3600]>>

needs_full_scan_keywords ==
    {"trend", "pattern", "over time", "historical", "all data", "complete",
     "entire", "whole", "every", "each", "summary", "overview", "analysis",
     "report"}

\* CONFIG["PARAMETERS"], each with param.lower()
CONFIG_PARAMETERS ==
    <<[lower |-> "humidity", name |-> HUMIDITY],
      [lower |-> "etp (tds)", name |-> ETP_TDS],
      [lower |-> "etp (ph)", name |-> ETP_pH],
      [lower |-> "stp (tds)", name |-> STP_TDS],
      [lower |-> "stp (tss)", name |-> STP_TSS],
      [lower |-> "stp (bod)", name |-> STP_BOD],
      [lower |-> "stp (ph)", name |-> STP_pH],
      [lower |-> "stp (cod)", name |-> STP_COD]>>

\* known_locations, each with loc.lower()
known_locations ==
    <<[lower |-> "ground water source 1", name |-> GroundWaterSource1],
      [lower |-> "industrial process", name |-> IndustrialProcess],
      [lower |-> "treatment plant inlet", name |-> <<"Treatment Plant Inlet">>]>>

\* the dates the date pattern matches
DateWords == {"2025-06-05"}

\* a question is the set of the words and phrases question.lower() contains
CQuestions ==
    {{"average", "humidity"}, {"flow", "today"}, {"trend", "today"},
     {"totalizer", "2025-06-05"}}

\* the seconds between an answer and the next question
CWaits == {0, 297, 298}

\* result["time_range"] before the full-scan keywords are looked at: "full",
\* ("relative", datetime.now() - delta) for the first keyword of
\* time_keywords in the question, ("absolute", the date) for a date
TimeRangeOf(question, now) ==
    LET hits == {k \in DOMAIN time_keywords :
                    time_keywords[k].keyword \in question}
        first == CHOOSE k \in hits : \A j \in hits : k <= j
    IN  IF \E d \in DateWords : d \in question
        THEN [kind |-> "absolute", start |-> 0,
              date |-> CHOOSE d \in DateWords : d \in question]
        ELSE IF hits # {}
        THEN [kind |-> "relative", start |-> now - time_keywords[first].delta,
              date |-> ""]
        ELSE [kind |-> "full", start |-> 0, date |-> ""]

\* result["aggregation"]
AggregationOf(question) ==
    IF {"latest", "current", "now", "recent"} \cap question # {} THEN "latest"
    ELSE IF {"average", "mean"} \cap question # {} THEN "average"
    ELSE IF "trend" \in question THEN "trend"
    ELSE "None"

\* the entries of a list whose lower-case form is in the question
Mentioned(question, entries) ==
    LET In(e) == e.lower \in question
        found == SelectSeq(entries, In)
    IN  [k \in DOMAIN found |-> found[k].name]

\* result["filters"]: the field filtered on and its values
FiltersOf(question, table) ==
    LET values == IF table = "water_quality"
                  THEN Mentioned(question, CONFIG_PARAMETERS)
                  ELSE Mentioned(question, known_locations)
    IN  IF values = <<>> THEN [field |-> "", values |-> <<>>]
        ELSE [field |-> IF table = "water_quality" THEN "parameter_name"
                        ELSE "location_name",
              values |-> values]

\* WaterChatBot.parse_query_intent, called at the instant now
parse_query_intent(question, now) ==
    LET table == IF {"flow", "totalizer", "location"} \cap question # {}
                 THEN "flow_rate" ELSE "water_quality"
        scan == needs_full_scan_keywords \cap question # {}
    IN  [table |-> table,
         filters |-> FiltersOf(question, table),
         time_range |-> IF scan THEN [kind |-> "full", start |-> 0, date |-> ""]
                        ELSE TimeRangeOf(question, now),
         aggregation |-> AggregationOf(question),
         needs_full_scan |-> scan]

\* the intent check_alerts builds at the instant now
AlertIntent(now) ==
    [table |-> "water_quality",
     filters |-> [field |-> "", values |-> <<>>],
     time_range |-> [kind |-> "relative", start |-> now - 86400, date |-> ""],
     aggregation |-> "None",
     needs_full_scan |-> FALSE]

\* hashlib.md5(f"{table}_{str(intent)}".encode()).hexdigest(): one key per
\* text, and str(intent) prints every entry, the datetime of a relative range
\* included
cache_key(table, intent) == <<table, intent>>

\* fetch_data returns the cached result
CacheHit(key, now) ==
    \E entry \in query_cache :
        /\ entry.key = key
        /\ now - entry.cached_time < CACHE_SECONDS

\* self.query_cache[cache_key] = (datetime.now(), df)
CacheStore(key, now, df) ==
    {entry \in query_cache : entry.key # key}
    \cup {[key |-> key, cached_time |-> now, cached_data |-> df]}

\* a call of fetch_data, as it is logged
Fetch(caller, key, now, round_trip, stored) ==
    [caller |-> caller, question |-> c_question, key |-> key, time |-> now,
     round_trip |-> round_trip, stored |-> stored]

\* WaterChatBot.fetch_data at the instant now: the cached result, or the
\* query (one request for "latest", a request per page otherwise), whose
\* result is cached unless a request raised
fetch_data(caller, table, intent, now) ==
    \E key \in {cache_key(table, intent)} :
        IF CacheHit(key, now)
        THEN /\ c_fetches' = Append(c_fetches, Fetch(caller, key, now, FALSE, FALSE))
             /\ UNCHANGED query_cache
        ELSE \E result \in {"df", "raised"} :
                /\ c_fetches' =
                      Append(c_fetches,
                             Fetch(caller, key, now, TRUE, result = "df"))
                /\ query_cache' =
                      IF result = "df" THEN CacheStore(key, now, result)
                      ELSE query_cache

\* generate_response(question): intent = self.parse_query_intent(question)
Ask ==
    /\ c_pc = "idle"
    /\ c_asked < MaxQuestions
    /\ \E question \in CQuestions, wait \in CWaits :
          /\ c_now' = c_now + wait
          /\ c_question' = question
          /\ c_intent' = parse_query_intent(question, c_now + wait)
    /\ c_asked' = c_asked + 1
    /\ c_pc' = "check_alerts"
    /\ UNCHANGED <<query_cache, c_fetches>>
    /\ UNCHANGED <<bvars, gvars, hvars, evars, uvars, kvars>>

\* alerts = self.check_alerts(): its fetch of the last 24 hours
CheckAlerts ==
    /\ c_pc = "check_alerts"
    /\ c_now' = c_now + 1
    /\ fetch_data("check_alerts", "water_quality", AlertIntent(c_now + 1),
                  c_now + 1)
    /\ c_pc' = "fetch_data"
    /\ UNCHANGED <<c_asked, c_question, c_intent>>
    /\ UNCHANGED <<bvars, gvars, hvars, evars, uvars, kvars>>

\* df = self.fetch_data(intent["table"], intent), then the answer
FetchData ==
    /\ c_pc = "fetch_data"
    /\ c_now' = c_now + 1
    /\ fetch_data("generate_response", c_intent.table, c_intent, c_now + 1)
    /\ c_pc' = "idle"
    /\ UNCHANGED <<c_asked, c_question, c_intent>>
    /\ UNCHANGED <<bvars, gvars, hvars, evars, uvars, kvars>>

NextChatbot ==
    \/ Ask
    \/ CheckAlerts
    \/ FetchData

\* an initialized chatbot with an empty cache
CInit ==
    /\ c_pc = "idle"
    /\ c_now = 0
    /\ c_asked = 0
    /\ c_question = {}
    /\ c_intent = <<>>
    /\ query_cache = {}
    /\ c_fetches = <<>>

InitChatbot ==
    /\ CInit /\ IIdle /\ TIdle /\ DIdle /\ SIdle /\ NIdle
    /\ QIdle /\ FIdle /\ AIdle /\ WIdle

\* the questions of one session of the chatbot
SpecChatbot == InitChatbot /\ [][NextChatbot]_vars

----------------------------------------------------------------------------
(* Fetches through the store interface: fetch_data_with_pagination of       *)
(* dashwork/dash.py and app/main.py, the query of WaterChatBot.fetch_data   *)

\* page_size = 1000, scaled down
page_size == 2

\* limit(10) of a "latest" query, scaled down
latest_limit == 1

\* the rows of a table that match the filter: at most this many
MaxStored == 5

\* "len(all_data) >= 500": half a page
EnoughRows == page_size \div 2

\* query.range(first, last).execute().data: the rows of the result from
\* position first to position last, both counted from 0 and included
range_(rows, first, last) ==
    SubSeq(rows, first + 1, IF last + 1 < Len(rows) THEN last + 1 ELSE Len(rows))

\* query.order('timestamp', desc=True).limit(n).execute().data
latest(rows, n) ==
    [k \in 1..(IF Len(rows) < n THEN Len(rows) ELSE n) |-> rows[Len(rows) + 1 - k]]

\* the locals of a pagination loop before its first turn
PageLocals == [offset |-> 0, all_data |-> <<>>, done |-> FALSE]

\* a plausible slip: the offset advances by one row less than a page
PageStepOverlapping(st, rows, early) ==
    LET page_data == range_(rows, st.offset, st.offset + page_size - 1)
        all_data == st.all_data \o page_data
    IN  IF page_data = <<>> THEN [st EXCEPT !.done = TRUE]
        ELSE [offset |-> st.offset + page_size - 1,
              all_data |-> all_data,
              done |-> \/ early /\ Len(all_data) >= EnoughRows
                       \/ Len(page_data) < page_size]

\* one turn of "while True": a page is requested; an empty page ends the
\* loop; else the page is added, the offset advances by a page, and the loop
\* ends on a short page (in WaterChatBot.fetch_data also, when no full scan
\* is needed, once EnoughRows rows are there)
PageStep(st, rows, early) ==
    LET page_data == range_(rows, st.offset, st.offset + page_size - 1)
        all_data == st.all_data \o page_data
    IN  IF page_data = <<>> THEN [st EXCEPT !.done = TRUE]
        ELSE [offset |-> st.offset + page_size,
              all_data |-> all_data,
              done |-> \/ early /\ Len(all_data) >= EnoughRows
                       \/ Len(page_data) < page_size]

\* the requests of a fetch: the call returns, or it raises
GOutcomes == IF g_faults > 0 THEN {"ok", "raised"} ELSE {"ok"}

\* a turn of the loop of the function g_impl; caught tells whether the
\* function has the loop inside a try that returns an empty DataFrame
FetchPage(impl, early, caught) ==
    /\ g_pc = "loop"
    /\ g_impl = impl
    /\ g_calls' = g_calls + 1
    /\ \E outcome \in GOutcomes :
          IF outcome = "raised"
          THEN /\ g_faults' = g_faults - 1
               /\ g_pc' = IF caught THEN "caught" ELSE "raised"
               /\ g_df' = <<>>
               /\ UNCHANGED <<g_offset, g_all_data>>
          ELSE \E st \in {PageStep([offset |-> g_offset,
                                    all_data |-> g_all_data,
                                    done |-> FALSE], g_rows, early)} :
                  /\ g_offset' = st.offset
                  /\ g_all_data' = st.all_data
                  /\ g_pc' = IF st.done THEN "returned" ELSE "loop"
                  /\ g_df' = IF st.done THEN st.all_data ELSE g_df
                  /\ UNCHANGED g_faults
    /\ UNCHANGED <<g_impl, g_rows, g_intent>>
    /\ UNCHANGED <<bvars, cvars, hvars, evars, uvars, kvars>>

\* DashboardManager.fetch_data_with_pagination: the loop is inside try
DashFetchPage == g_impl = "dash" /\ FetchPage("dash", FALSE, TRUE)

\* fetch_data_with_pagination of app/main.py: no try
MainFetchPage == g_impl = "main" /\ FetchPage("main", FALSE, FALSE)

\* WaterChatBot.fetch_data, the paginated query
ChatbotFetchPage ==
    /\ g_impl = "chatbot"
    /\ g_intent.aggregation # "latest"
    /\ FetchPage("chatbot", ~g_intent.needs_full_scan, TRUE)

\* WaterChatBot.fetch_data, the "latest" query: one request
ChatbotFetchLatest ==
    /\ g_pc = "loop"
    /\ g_impl = "chatbot"
    /\ g_intent.aggregation = "latest"
    /\ g_calls' = g_calls + 1
    /\ \E outcome \in GOutcomes :
          IF outcome = "raised"
          THEN /\ g_faults' = g_faults - 1
               /\ g_pc' = "caught"
               /\ g_df' = <<>>
          ELSE /\ g_pc' = "returned"
               /\ g_df' = latest(g_rows, latest_limit)
               /\ UNCHANGED g_faults
    /\ UNCHANGED <<g_impl, g_rows, g_intent, g_offset, g_all_data>>
    /\ UNCHANGED <<bvars, cvars, hvars, evars, uvars, kvars>>

NextFetch ==
    \/ DashFetchPage
    \/ MainFetchPage
    \/ ChatbotFetchPage
    \/ ChatbotFetchLatest

\* the intents of the chatbot as far as the query depends on them
GIntents ==
    {[aggregation |-> a, needs_full_scan |-> n] :
        a \in {"latest", "average", "None"}, n \in BOOLEAN}

\* a fetch is called on a table of K matching rows, each its own record
GInit ==
    /\ g_pc = "loop"
    /\ g_impl \in {"dash", "main", "chatbot"}
    /\ \E K \in 0..MaxStored : g_rows = [k \in 1..K |-> k]
    /\ IF g_impl = "chatbot" THEN g_intent \in GIntents ELSE g_intent = <<>>
    /\ g_offset = 0
    /\ g_all_data = <<>>
    /\ g_calls = 0
    /\ g_faults \in 0..MaxFaults
    /\ g_df = <<>>

InitFetch ==
    /\ GInit /\ HIdle /\ EIdle /\ UIdle /\ KIdle /\ CIdle /\ IIdle /\ TIdle /\ DIdle /\ SIdle
    /\ QIdle /\ FIdle /\ AIdle /\ WIdle

\* one fetch; a loop that can take a turn takes it
SpecFetch == InitFetch /\ [][NextFetch]_vars /\ WF_vars(NextFetch)

----------------------------------------------------------------------------
(* DashboardManager.fetch_split_data *)

\* the requests of a call of fetch_split_data one of which may raise
MaxRaiseAt == 4

\* int(len(df) * 0.8)
split_index(n) == (n * 8) \div 10

\* pd.to_numeric(column, errors='coerce') on a cell
to_numeric(cell) == IF IsFloat(cell) THEN cell ELSE NaN

\* the k-th row of a stored table; the second row holds text where a
\* number is expected
StoredRow(column, k) ==
    [id |-> k, column |-> column,
     number |-> IF k = 2 THEN Text(<<"abc">>) ELSE Num(k * 10)]

\* DashboardManager.fetch_data_with_pagination as a whole: the loop, and the
\* except that returns an empty DataFrame; calls counts the requests of
\* fetch_split_data made so far
RECURSIVE Paginate(_, _, _, _)
Paginate(rows, st, calls, raise_at) ==
    IF st.done THEN [df |-> st.all_data, calls |-> calls, failed |-> FALSE]
    ELSE IF calls + 1 = raise_at
    THEN [df |-> <<>>, calls |-> calls + 1, failed |-> TRUE]
    ELSE Paginate(rows, PageStep(st, rows, FALSE), calls + 1, raise_at)

\* df.iloc[:split_index], df.iloc[split_index:], or df
ILoc(df, mode) ==
    IF mode = "historical" THEN SubSeq(df, 1, split_index(Len(df)))
    ELSE IF mode = "live" THEN SubSeq(df, split_index(Len(df)) + 1, Len(df))
    ELSE df

\* the cleaning of the numeric column
Clean(df) == [k \in DOMAIN df |-> [df[k] EXCEPT !.number = to_numeric(@)]]

\* fetch_split_data(mode): the two tables returned, the requests made and
\* whether a fetch failed
fetch_split_data(mode, initialized, flow, quality, raise_at) ==
    IF ~initialized
    THEN [flow_df |-> <<>>, quality_df |-> <<>>, calls |-> 0, failed |-> FALSE]
    ELSE LET all_flow == Paginate(flow, PageLocals, 0, raise_at)
             all_quality == Paginate(quality, PageLocals, all_flow.calls, raise_at)
         IN  [flow_df |-> Clean(ILoc(all_flow.df, mode)),
              quality_df |-> Clean(ILoc(all_quality.df, mode)),
              calls |-> all_quality.calls,
              failed |-> all_flow.failed \/ all_quality.failed]

\* a call of fetch_split_data
FetchSplitData ==
    /\ k_pc = "called"
    /\ k_pc' = "returned"
    /\ k_result' = fetch_split_data(k_mode, k_initialized, k_flow, k_quality,
                                    k_raise_at)
    /\ UNCHANGED <<k_mode, k_initialized, k_flow, k_quality, k_raise_at>>
    /\ UNCHANGED <<bvars, cvars, gvars, hvars, evars, uvars>>

NextSplit == FetchSplitData

KInit ==
    /\ k_pc = "called"
    /\ k_mode \in {"historical", "live", "all"}
    /\ k_initialized \in BOOLEAN
    /\ \E N \in 0..MaxStored : k_flow = [k \in 1..N |-> StoredRow("totalizer", k)]
    /\ \E N \in 0..MaxStored : k_quality = [k \in 1..N |-> StoredRow("value", k)]
    /\ k_raise_at \in 0..MaxRaiseAt
    /\ k_result = <<>>

InitSplit ==
    /\ KInit /\ GIdle /\ HIdle /\ EIdle /\ UIdle /\ CIdle /\ IIdle /\ TIdle
    /\ DIdle /\ SIdle
    /\ QIdle /\ FIdle /\ AIdle /\ WIdle

\* one call of fetch_split_data
SpecSplit == InitSplit /\ [][NextSplit]_vars

----------------------------------------------------------------------------
(* show_chatbot and generate_response of analytics/chatbot.py and           *)
(* app/main.py                                                              *)

\* the runs of show_chatbot and the calls of generate_response in a session
MaxHandled == 3

\* the quick queries of the sidebar and the prompts typed in
QuickQueries == {"latest alerts", "ph trend"}

Prompts == {"ph trend", "flow today"}

\* what the store answers to the fetches of a question, and what the chain
\* does when invoked
StoreOutcomes == {"rows", "empty", "raised"}

LLMOutcomes == {"answer", "raised"}

\* generate_response: the string returned, the calls made to the store (the
\* alert check, then the data of the question) and to the LLM, and whether
\* the call raised.  analytics/chatbot.py: the body is inside a try that
\* returns an error string, and fetch_data catches its own failures and
\* returns an empty table.  app/main.py: no try; a failed fetch of
\* check_alerts or a failed chain.invoke leaves generate_response
generate_response(impl, initialized, store, llm) ==
    IF ~initialized
    THEN [response |-> "not_initialized", calls |-> <<>>, raised |-> FALSE]
    ELSE IF store = "raised"
    THEN IF impl = "analytics"
         THEN [response |-> "no_data", calls |-> <<"store", "store">>,
               raised |-> FALSE]
         ELSE [response |-> "none", calls |-> <<"store">>, raised |-> TRUE]
    ELSE IF store = "empty"
    THEN [response |-> "no_data", calls |-> <<"store", "store">>,
          raised |-> FALSE]
    ELSE IF llm = "raised"
    THEN IF impl = "analytics"
         THEN [response |-> "error", calls |-> <<"store", "store", "llm">>,
               raised |-> FALSE]
         ELSE [response |-> "none", calls |-> <<"store", "store", "llm">>,
               raised |-> TRUE]
    ELSE [response |-> "answer", calls |-> <<"store", "store", "llm">>,
          raised |-> FALSE]

\* the messages a question adds to chat_history: the user's, then the
\* assistant's unless generate_response raised
Exchange(question, r) ==
    IF r.raised THEN <<[role |-> "user", content |-> question]>>
    ELSE <<[role |-> "user", content |-> question],
           [role |-> "assistant", content |-> r.response]>>

\* [msg["content"] for msg in st.session_state.chat_history]
Contents(history) == {history[k].content : k \in DOMAIN history}

\* a run, as it is logged
Handled(kind, text, store, llm, r, after) ==
    [kind |-> kind, text |-> text, store |-> store, llm |-> llm,
     response |-> r.response, calls |-> r.calls, raised |-> r.raised,
     known |-> text \in Contents(chat_history),
     before |-> Len(chat_history), after |-> Len(after)]

\* show_chatbot of analytics/chatbot.py checks the initialization in the run
\* that creates the chatbot only: that run returns before the history, the
\* later runs of the session go on with the chatbot as it is
PanelShown == h_impl = "main" \/ h_initialized \/ h_handled # <<>>

\* show_chatbot(initial_question = a quick query), nothing typed in
QuickQuery ==
    /\ h_impl # "none"
    /\ PanelShown
    /\ Len(h_handled) < MaxHandled
    /\ \E question \in QuickQueries, store \in StoreOutcomes, llm \in LLMOutcomes :
          \E r \in {generate_response(h_impl, h_initialized, store, llm)} :
             /\ chat_history' =
                   IF question \in Contents(chat_history) THEN chat_history
                   ELSE chat_history \o Exchange(question, r)
             /\ h_handled' =
                   Append(h_handled,
                          Handled("quick", question, store, llm,
                                  IF question \in Contents(chat_history)
                                  THEN [response |-> "none", calls |-> <<>>,
                                        raised |-> FALSE]
                                  ELSE r,
                                  chat_history'))
    /\ UNCHANGED <<h_impl, h_initialized>>
    /\ UNCHANGED <<bvars, cvars, gvars, evars, uvars, kvars>>

\* show_chatbot with a prompt typed into st.chat_input
UserInput ==
    /\ h_impl # "none"
    /\ PanelShown
    /\ Len(h_handled) < MaxHandled
    /\ \E prompt \in Prompts, store \in StoreOutcomes, llm \in LLMOutcomes :
          \E r \in {generate_response(h_impl, h_initialized, store, llm)} :
             /\ chat_history' = chat_history \o Exchange(prompt, r)
             /\ h_handled' =
                   Append(h_handled,
                          Handled("input", prompt, store, llm, r, chat_history'))
    /\ UNCHANGED <<h_impl, h_initialized>>
    /\ UNCHANGED <<bvars, cvars, gvars, evars, uvars, kvars>>

\* the first run of show_chatbot of analytics/chatbot.py with a chatbot that
\* did not initialize: st.error and return
InitializationFailed ==
    /\ h_impl # "none"
    /\ ~PanelShown
    /\ h_handled' =
          Append(h_handled,
                 Handled("failed", "", "empty", "answer",
                         [response |-> "none", calls |-> <<>>, raised |-> FALSE],
                         chat_history))
    /\ UNCHANGED <<h_impl, h_initialized, chat_history>>
    /\ UNCHANGED <<bvars, cvars, gvars, evars, uvars, kvars>>

NextChatPanel ==
    \/ QuickQuery
    \/ UserInput
    \/ InitializationFailed

HInit ==
    /\ h_impl \in {"analytics", "main"}
    /\ h_initialized \in BOOLEAN
    /\ chat_history = <<>>
    /\ h_handled = <<>>

InitChatPanel ==
    /\ HInit /\ GIdle /\ EIdle /\ UIdle /\ KIdle /\ CIdle /\ IIdle /\ TIdle /\ DIdle /\ SIdle
    /\ QIdle /\ FIdle /\ AIdle /\ WIdle

\* a session of the chat panel
SpecChatPanel == InitChatPanel /\ [][NextChatPanel]_vars

----------------------------------------------------------------------------
(* The entry points and the configuration they need *)

\* the calls to the store or the LLM followed after an entry point started
MaxCalls == 2

ConfigValues == {"SUPABASE_URL", "SUPABASE_ANON_KEY", "GEMINI_API_KEY"}

EntryPoints ==
    {"preload_historical", "scheduler", "simulate_realtime",
     "chatbot", "main_chatbot"}

\* the values an entry point cannot work without
Required(entry) ==
    IF entry \in {"chatbot", "main_chatbot"} THEN ConfigValues
    ELSE {"SUPABASE_URL", "SUPABASE_ANON_KEY"}

\* create_client(url, key) of the store's client library, called with values
\* read by os.getenv: with both set it returns a client; with one of them
\* None it either raises or returns a client that cannot reach the store,
\* as the library decides
create_client(config) ==
    IF {"SUPABASE_URL", "SUPABASE_ANON_KEY"} \subseteq config THEN {"running"}
    ELSE {"raised", "running"}

\* main() of preload_historical.py: `if not SUPABASE_URL or not
\* SUPABASE_ANON_KEY:` print and return, else run_full_ingestion
PreloadMain ==
    /\ e_entry = "preload_historical" /\ e_pc = "start"
    /\ e_pc' = IF {"SUPABASE_URL", "SUPABASE_ANON_KEY"} \subseteq e_config
               THEN "running" ELSE "reported"
    /\ UNCHANGED <<e_entry, e_config, e_calls>>
    /\ UNCHANGED <<bvars, cvars, gvars, hvars, uvars, kvars>>

\* start_scheduler(): RemainingDataIngestor() calls create_client with what
\* os.getenv returned, then the cycles start
StartScheduler ==
    /\ e_entry = "scheduler" /\ e_pc = "start"
    /\ e_pc' \in create_client(e_config)
    /\ UNCHANGED <<e_entry, e_config, e_calls>>
    /\ UNCHANGED <<bvars, cvars, gvars, hvars, uvars, kvars>>

\* start_realtime(): RealtimeDataSimulator() calls create_client with what
\* os.getenv returned, then run_simulation starts
StartRealtime ==
    /\ e_entry = "simulate_realtime" /\ e_pc = "start"
    /\ e_pc' \in create_client(e_config)
    /\ UNCHANGED <<e_entry, e_config, e_calls>>
    /\ UNCHANGED <<bvars, cvars, gvars, hvars, uvars, kvars>>

\* show_chatbot of analytics/chatbot.py and of app/main.py: st.error,
\* st.info and return when one of the three values is missing
ShowChatbot ==
    /\ e_entry \in {"chatbot", "main_chatbot"} /\ e_pc = "start"
    /\ e_pc' = IF ConfigValues \subseteq e_config THEN "running" ELSE "reported"
    /\ UNCHANGED <<e_entry, e_config, e_calls>>
    /\ UNCHANGED <<bvars, cvars, gvars, hvars, uvars, kvars>>

\* a running entry point calls the store or the LLM; the ingestion loops
\* catch a failed call and go on
EntryCall ==
    /\ e_pc = "running"
    /\ e_calls < MaxCalls
    /\ e_calls' = e_calls + 1
    /\ UNCHANGED <<e_entry, e_config, e_pc>>
    /\ UNCHANGED <<bvars, cvars, gvars, hvars, uvars, kvars>>

NextEntry ==
    \/ PreloadMain
    \/ StartScheduler
    \/ StartRealtime
    \/ ShowChatbot
    \/ EntryCall

EInit ==
    /\ e_entry \in EntryPoints
    /\ e_config \in SUBSET ConfigValues
    /\ e_pc = "start"
    /\ e_calls = 0

InitEntry ==
    /\ EInit /\ GIdle /\ HIdle /\ UIdle /\ KIdle /\ CIdle /\ IIdle /\ TIdle /\ DIdle /\ SIdle
    /\ QIdle /\ FIdle /\ AIdle /\ WIdle

\* an entry point started in some environment
SpecEntry == InitEntry /\ [][NextEntry]_vars

----------------------------------------------------------------------------
(* start_scheduler: run_ingestion_cycle every 45 seconds *)

\* the cycles of start_scheduler that are followed
MaxCycles == 2

\* the quality tables of the scheduler: eight rows of a first section, then
\* a section that starts after the 80% mark
UFiles ==
    { IHead(8) \o <<<<Text(ETPpHLine), NaN, NaN>>>> \o t :
        t \in { <<FirstOfJuneRow>>,
                <<FirstOfJuneRow, <<DateCell(6, 1), TimeCell, Num(95)>>>> } }

\* the columns a row is identified by; the rows of the historical load have
\* no location_name
RowKey(r) ==
    <<r.timestamp, r.parameter_name,
      IF "location_name" \in DOMAIN r THEN r.location_name ELSE None>>

\* table(...).upsert(batch) on a table with one row per RowKey: a row of the
\* batch replaces the stored row of its key, the other rows are added
upsert_keyed(rows, batch) ==
    SelectSeq(rows, LAMBDA r : \A k \in DOMAIN batch : RowKey(batch[k]) # RowKey(r))
        \o batch

\* what the table holds after an accepted upsert of ingest_batch: without a
\* key that covers the columns of the batch every row of the batch is added
ingest_batch(rows, batch, keyed) ==
    IF keyed THEN upsert_keyed(rows, batch) ELSE rows \o batch

\* the first next() on get_remaining_data_chunks of a cycle: the table is
\* read again from the 80% mark and every value is varied anew
RunIngestionCycle ==
    /\ u_pc \in {"start", "sleeping"}
    /\ u_cycles < MaxCycles
    /\ u_cycles' = u_cycles + 1
    /\ \E st \in {ILoop(u_file, Cutoff(Len(u_file)), ILocals(u_seed))} :
          /\ u_pc' = IF st.raised THEN "crashed" ELSE "yielding"
          /\ u_chunks' = IF st.raised THEN <<>>
                         ELSE AllChunks(st.rows_by_param_loc, st.keys, chunk_size)
          /\ u_seed' = (u_seed + st.draws) % Len(RandomDraws)
    /\ UNCHANGED <<u_file, u_keyed>>
    /\ UNCHANGED <<qvars, fvars, avars, wvars, ivars, tvars, dvars, svars>>
    /\ UNCHANGED <<cvars, gvars, hvars, evars, kvars>>

\* ingest_batch(chunk, "water_quality"): the upsert, inside a try that
\* prints the failure and returns False
UpsertBatch ==
    /\ u_pc = "yielding"
    /\ u_chunks # <<>>
    /\ u_chunks' = Tail(u_chunks)
    /\ \E outcome \in Outcomes :
          /\ faults' = FaultsAfter(outcome)
          /\ water_quality' =
                IF outcome = "accepted"
                THEN ingest_batch(water_quality, Head(u_chunks), u_keyed)
                ELSE water_quality
    /\ UNCHANGED <<u_pc, u_file, u_seed, u_keyed, u_cycles>>
    /\ UNCHANGED <<flow_rate, t_accepted>>
    /\ UNCHANGED <<qvars, fvars, avars, wvars, ivars, dvars, svars>>
    /\ UNCHANGED <<cvars, gvars, hvars, evars, kvars>>

\* the chunks of the cycle are used up: time.sleep(45)
CycleComplete ==
    /\ u_pc = "yielding"
    /\ u_chunks = <<>>
    /\ u_pc' = "sleeping"
    /\ UNCHANGED <<u_file, u_seed, u_keyed, u_chunks, u_cycles>>
    /\ UNCHANGED <<qvars, fvars, avars, wvars, ivars, tvars, dvars, svars>>
    /\ UNCHANGED <<cvars, gvars, hvars, evars, kvars>>

NextScheduler ==
    \/ RunIngestionCycle
    \/ UpsertBatch
    \/ CycleComplete

UInit ==
    /\ u_pc = "start"
    /\ u_file \in UFiles
    /\ u_seed \in Seeds
    /\ u_keyed \in BOOLEAN
    /\ u_chunks = <<>>
    /\ u_cycles = 0

InitScheduler ==
    /\ UInit /\ TInit /\ DIdle /\ SIdle /\ IIdle /\ CIdle
    /\ GIdle /\ HIdle /\ EIdle /\ KIdle
    /\ QIdle /\ FIdle /\ AIdle /\ WIdle

\* the scheduler over an empty store
SpecScheduler == InitScheduler /\ [][NextScheduler]_vars

----------------------------------------------------------------------------
(* What a table holds, read off the table as a whole *)

\* the indices 1..n in increasing order
Indices(n) == [i \in 1..n |-> i]

\* the last parameter definition line before row i, 0 when there is none
RECURSIVE QHeaderBefore(_, _)
QHeaderBefore(file, i) ==
    IF i <= 1 THEN 0
    ELSE IF QIsParameterLine(file[i - 1]) THEN i - 1
    ELSE QHeaderBefore(file, i - 1)

\* the label of each parameter definition line the tables are made of,
\* cleaned up to the alias lookup and the spacing
QLabels ==
    [l \in QParameterLines |-> SpacedName(CleanName(ParamLine(l)))]

\* the label of the last parameter definition line before row i
QLabelAt(file, i) ==
    LET h == QHeaderBefore(file, i)
    IN  IF h = 0 THEN None ELSE QLabels[Line(file[h][1])]

\* the section row i belongs to: the label of the last parameter definition
\* line before it when that label is an allowed parameter, else None
QSectionAt(file, i) ==
    LET label == QLabelAt(file, i)
    IN  IF label \in ALLOWED_PARAMETERS THEN label ELSE None

\* row is a data row with a date, a time and a finite number
QParses(row) ==
    /\ QIsDataRow(row)
    /\ row[1].t = "date" /\ row[2].t = "time" /\ row[3].t = "num"

\* the readings of section k in the table, in the order of the rows
QReadings(file, k) ==
    LET idx == SelectSeq(Indices(Len(file)),
                         LAMBDA i : QParses(file[i]) /\ QSectionAt(file, i) = k)
    IN  [n \in 1..Len(idx) |->
            [timestamp |-> Stamp(file[idx[n]][1].n[1], file[idx[n]][1].n[2]),
             parameter_name |-> k,
             value |-> file[idx[n]][3].n[1]]]

\* a quality record without its safe range
QReading(r) ==
    [timestamp |-> r.timestamp, parameter_name |-> r.parameter_name,
     value |-> r.value]

QReadingsOf(rows) == [n \in 1..Len(rows) |-> QReading(rows[n])]

\* the sections of the table that have a reading
QSections(file) ==
    {QSectionAt(file, i) : i \in {j \in 1..Len(file) : QParses(file[j])}}
        \ {None}

\* the last location line before row i, 0 when there is none
RECURSIVE FHeaderBefore(_, _)
FHeaderBefore(file, i) ==
    IF i <= 1 THEN 0
    ELSE IF FIsLocationLine(file[i - 1]) THEN i - 1
    ELSE FHeaderBefore(file, i - 1)

\* the location section row i belongs to, None before the first location line
FSectionAt(file, i) ==
    LET h == FHeaderBefore(file, i)
    IN  IF h = 0 THEN None ELSE LocationOf(file[h][1])

\* row is a data row with a padded date, a time and a number (or inf)
FParses(row) ==
    /\ FIsDataRow(row)
    /\ row[1].t = "date" /\ row[2].t = "time" /\ row[3].t \in {"num", "inf"}

\* the readings of location section k in the table, in the order of the rows
FReadings(file, k) ==
    LET idx == SelectSeq(Indices(Len(file)),
                         LAMBDA i : FParses(file[i]) /\ FSectionAt(file, i) = k)
    IN  [n \in 1..Len(idx) |->
            [timestamp |-> Stamp(file[idx[n]][1].n[1], file[idx[n]][1].n[2]),
             location_name |-> k,
             totalizer |-> IF file[idx[n]][3].t = "inf" THEN InfNum
                           ELSE file[idx[n]][3].n[1]]]

\* the location sections of the table that have a reading
FSections(file) ==
    {FSectionAt(file, i) : i \in {j \in 1..Len(file) : FParses(file[j])}}
        \ {None}

\* s is sorted by timestamp
IsSortedByTimestamp(s) ==
    \A i \in 1..Len(s) - 1 : s[i].timestamp <= s[i + 1].timestamp

\* the place of s[i] when s is put in ascending timestamp order, readings of
\* equal timestamp keeping their order
StableRank(s, i) ==
    1 + Cardinality({j \in 1..Len(s) :
                        \/ s[j].timestamp < s[i].timestamp
                        \/ (s[j].timestamp = s[i].timestamp /\ j < i)})

\* s in timestamp order
InTimestampOrder(s) ==
    [p \in 1..Len(s) |-> s[CHOOSE i \in 1..Len(s) : StableRank(s, i) = p]]

\* p is the first n elements of s
IsPrefix(p, s, n) == Len(p) = n /\ \A i \in 1..n : p[i] = s[i]

\* floor(0.8 * n)
Floor80(n) == (4 * n) \div 5

----------------------------------------------------------------------------
(* Claims on the parsers of the historical load *)

\* labels as they are written before "Safe Range:": the spellings of the
\* alias table with and without numbering, blanks and a trailing comma, and
\* labels that name no parameter
QLabelTexts ==
    {<<sys, " ", mea>> : sys \in Systems, mea \in Measures}
        \cup {<<sys, "(", mea, ")">> : sys \in Systems, mea \in Measures}
        \cup {<<sys, " ", "(", mea, ")">> : sys \in Systems, mea \in Measures}
        \cup {<<"2", ".", " ", sys, " ", mea, ",">> :
                 sys \in Systems, mea \in Measures}
        \cup {<<"HUMIDITY">>, <<" ", "HUMIDITY", ",">>, <<"1", ".", "HUMIDITY">>,
              <<"Chlorine">>, <<"pH">>, <<"HUMIDITY", " ", "(", "pH", ")">>,
              <<>>}

\* what normalize_parameter_name returns for the labels of the parameter
\* definition lines the tables are made of
QNormalized ==
    {normalize_parameter_name(ParamLine(l)) : l \in QParameterLines}
        \cup {normalize_parameter_name(label) : label \in QLabelTexts}

\* C1: the name normalize_parameter_name gives for a "Safe Range:" line is a
\* member of the allow-list or None; only allow-list names become the active
\* parameter, the key of a group or the parameter_name of a record, and a line
\* whose label is no allow-list name leaves no parameter active.
C1_ParameterNamesAllowed ==
    /\ current_param \in ALLOWED_PARAMETERS \cup {None}
    /\ DOMAIN rows_by_param \subseteq ALLOWED_PARAMETERS
    /\ DOMAIN quality_data \subseteq ALLOWED_PARAMETERS
    /\ \A k \in DOMAIN rows_by_param :
          \A i \in 1..Len(rows_by_param[k]) :
             rows_by_param[k][i].parameter_name \in ALLOWED_PARAMETERS
    /\ QNormalized \subseteq ALLOWED_PARAMETERS \cup {None}
    /\ (/\ q_file # <<>>
        /\ QIsParameterLine(q_file[Len(q_file)])
        /\ QLabelAt(q_file, Len(q_file) + 1) \notin ALLOWED_PARAMETERS)
          => current_param = None

\* C1 witness: a table with an accepted section that has a record, whose last
\* row is a parameter line with a label outside the allow-list
C1_Witness ==
    /\ q_pc = "scan"
    /\ DOMAIN rows_by_param # {}
    /\ q_file # <<>>
    /\ QIsParameterLine(q_file[Len(q_file)])
    /\ QLabelAt(q_file, Len(q_file) + 1) \notin ALLOWED_PARAMETERS
    /\ skipped_invalid_params = 1

\* C2 as stated: every returned group is the first floor(0.8 N) of its key's
\* readings in timestamp order, for parameters and for locations alike.
C2_PrefixInTimestampOrder ==
    /\ q_pc = "returned" =>
          \A k \in QSections(q_file) :
             /\ k \in DOMAIN quality_data
             /\ IsPrefix(QReadingsOf(quality_data[k]),
                         InTimestampOrder(QReadings(q_file, k)),
                         Floor80(Len(QReadings(q_file, k))))
    /\ f_pc = "returned" =>
          \A k \in FSections(f_file) \cap expected_locations :
             /\ k \in DOMAIN flow_data
             /\ IsPrefix(flow_data[k],
                         InTimestampOrder(FReadings(f_file, k)),
                         Floor80(Len(FReadings(f_file, k))))

\* C2 amended: a returned quality group is the first floor(0.8 N) of its
\* parameter's readings in the order of the rows of the table; a returned flow
\* group is the first floor(0.8 N) of its location's readings in timestamp
\* order; the groups returned are those of the sections with a reading, for
\* flow data those of them that are known locations.
C2_HistoricalPrefix ==
    /\ q_pc = "returned" =>
          /\ DOMAIN quality_data = QSections(q_file)
          /\ \A k \in DOMAIN quality_data :
                \A readings \in {QReadings(q_file, k)} :
                   IsPrefix(QReadingsOf(quality_data[k]), readings,
                            Floor80(Len(readings)))
    /\ f_pc = "returned" =>
          /\ DOMAIN flow_data = FSections(f_file) \cap expected_locations
          /\ \A k \in DOMAIN flow_data :
                \A readings \in {FReadings(f_file, k)} :
                   IsPrefix(flow_data[k], InTimestampOrder(readings),
                            Floor80(Len(readings)))

\* C2 witness: a returned quality group that is not empty, of a parameter
\* whose readings are not in timestamp order in the table
C2_Witness ==
    /\ q_pc = "returned"
    /\ \E k \in DOMAIN quality_data :
          /\ quality_data[k] # <<>>
          /\ ~IsSortedByTimestamp(QReadings(q_file, k))

\* the fetched rows whose value is below the minimum or above the maximum of
\* the range of their parameter
OutOfRange(r) ==
    /\ r.parameter_name \in DOMAIN SAFE_RANGES
    /\ r.value # NaNNum
    /\ \/ r.value < SAFE_RANGES[r.parameter_name][1]
       \/ r.value > SAFE_RANGES[r.parameter_name][2]

\* parameter and value of every element of a sequence of alerts
AlertsOn(as) == [i \in 1..Len(as) |-> <<as[i].parameter, as[i].value>>]

\* parameter and value of every element of a sequence of rows
RowsOn(rows) ==
    [i \in 1..Len(rows) |-> <<rows[i].parameter_name, rows[i].value>>]

\* C3: every alert evaluator flags a reading if and only if its value is below
\* the minimum or above the maximum of the range of its parameter, the
\* parameters whose minimum is 0 included.
C3_FlaggedIffOutOfRange ==
    a_pc = "done" =>
        AlertsOn(alerts) = RowsOn(SelectSeq(quality_df, OutOfRange))

\* at or below 79% of the minimum, or at or above 121% of the maximum
BeyondTwentyPercent(a) ==
    a.value * 100 <= a.safe_min * 79 \/ a.value * 100 >= a.safe_max * 121

C5_UnknownParameterIgnored ==
    /\ a_pc # "failed"
    /\ a_pc = "done" =>
          \A i \in 1..Len(alerts) : alerts[i].parameter \in DOMAIN SAFE_RANGES

\* C5 witness: main.py's check_alerts has run over a reading of an unknown
\* parameter and a reading it flags
C5_Witness ==
    /\ a_pc = "done"
    /\ evaluator = "main.check_alerts"
    /\ alerts # <<>>
    /\ \E i \in 1..Len(quality_df) :
          quality_df[i].parameter_name \notin DOMAIN SAFE_RANGES

\* C6: a data row under an active parameter section whose third cell is not
\* numeric is not appended, adds exactly one to skipped_null_values, and leaves
\* the scan running with everything else as it was, so the rows before it stay
\* and the rows after it are handled as if it were not there.
C6_NonNumericRowSkipped ==
    [][\A row \in QRows :
          (/\ q_pc = "scan"
           /\ q_file' = Append(q_file, row)
           /\ QIsDataRow(row)
           /\ TruthyText(current_param)
           /\ row[3].t = "text")
          => (/\ rows_by_param' = rows_by_param
              /\ skipped_null_values' = skipped_null_values + 1
              /\ skipped_invalid_params' = skipped_invalid_params
              /\ current_param' = current_param
              /\ safe_min' = safe_min /\ safe_max' = safe_max
              /\ q_pc' = "scan")]_vars

\* C6 witness: a section with a record before and a record after a row whose
\* third cell is not numeric, and that row counted
C6_Witness ==
    /\ q_pc = "scan"
    /\ skipped_null_values = 1
    /\ \E i \in 1..Len(q_file) :
          /\ QIsDataRow(q_file[i])
          /\ q_file[i][3].t = "text"
          /\ QSectionAt(q_file, i) # None
          /\ QSectionAt(q_file, i) \in DOMAIN rows_by_param
          /\ Len(rows_by_param[QSectionAt(q_file, i)]) = 2
          /\ \E j \in 1..(i - 1) :
                QParses(q_file[j]) /\ QSectionAt(q_file, j) = QSectionAt(q_file, i)
          /\ \E j \in (i + 1)..Len(q_file) :
                QParses(q_file[j]) /\ QSectionAt(q_file, j) = QSectionAt(q_file, i)

\* the data rows of the quality table that are not emitted
QNotEmitted(file) ==
    {i \in 1..Len(file) :
        QIsDataRow(file[i]) /\ ~(QParses(file[i]) /\ QSectionAt(file, i) # None)}

\* the data rows under an active section that are not emitted
QNotEmittedInSection(file) ==
    {i \in QNotEmitted(file) : QSectionAt(file, i) # None}

C8_ParsersReturnPartialResults ==
    /\ q_pc # "failed"
    /\ f_pc # "failed"
    /\ q_pc = "scan" => ENABLED QReturn
    /\ f_pc = "scan" => ENABLED FReturn
    /\ q_pc = "returned" =>
          /\ DOMAIN quality_data = QSections(q_file)
          /\ \A k \in DOMAIN quality_data :
                Len(quality_data[k]) = Floor80(Len(QReadings(q_file, k)))
    /\ f_pc = "returned" =>
          /\ DOMAIN flow_data = FSections(f_file) \cap expected_locations
          /\ \A k \in DOMAIN flow_data :
                Len(flow_data[k]) = Floor80(Len(FReadings(f_file, k)))

\* C8 witness: a table with a parameter line whose range does not parse and a
\* row that does not parse, and a result with a group that is not empty
C8_Witness ==
    /\ q_pc = "returned"
    /\ skipped_invalid_params >= 1
    /\ skipped_null_values >= 1
    /\ \E k \in DOMAIN quality_data : quality_data[k] # <<>>

C10_FlowLocationsKnown ==
    \A r \in flow_records : r.location_name \in expected_locations

----------------------------------------------------------------------------
(* Claims on the incremental ingestor *)

\* the labels on which the two normalize_parameter_name functions agree
INormalizedAlike ==
    {label \in QLabelTexts :
        scheduler_normalize_parameter_name(label)
            = normalize_parameter_name(label)}

\* the records of the batches handed to ingest_batch
ISubmittedRecords ==
    UNION {{i_submitted[c][i] : i \in 1..Len(i_submitted[c])} :
              c \in 1..Len(i_submitted)}

\* C11: the incremental ingestor's normalize_parameter_name returns what the
\* historical load's returns for every raw label, so a label the historical
\* load rejects leaves no parameter active in the incremental process, and
\* every quality record the incremental process submits has a parameter_name
\* of the allow-list.
C11_SameNormalization ==
    /\ INormalizedAlike = QLabelTexts
    /\ i_pc \in {"yielding", "done"} =>
          i_param \in ALLOWED_PARAMETERS \cup {None}
    /\ \A r \in ISubmittedRecords : r.parameter_name \in ALLOWED_PARAMETERS

\* the rows of a table after the 80% mark, the rows the ingestor reads
ITail(file) == SubSeq(file, Cutoff(Len(file)) + 1, Len(file))

\* C12: the header line "1. ETP(pH) Safe Range: (6.5 to 9.0)" followed by the
\* row "01-06-2025, 08:30:00, 7.2" yields a record of ETP (pH) with range 6.5
\* to 9.0, timestamp 1 June 2025 and value 7.2, in the historical load and in
\* the incremental process alike.
C12_ExampleReadDayFirst ==
    /\ (/\ i_pc # "start"
        /\ i_file = <<<<Text(ETPpHLine), NaN, NaN>>, FirstOfJuneRow,
                      FirstOfJuneRow>>)
          => i_historical =
                (ETP_pH :> <<[timestamp |-> Stamp(1, 6),
                              parameter_name |-> ETP_pH, value |-> 72,
                              safe_min |-> 65, safe_max |-> 90]>>)
    /\ (/\ i_pc \in {"yielding", "done"}
        /\ ITail(i_file) = <<<<Text(ETPpHLine), NaN, NaN>>, FirstOfJuneRow>>)
          => \A l \in 1..Len(scheduler_locations) :
                /\ <<ETP_pH, scheduler_locations[l]>> \in DOMAIN rows_by_param_loc
                /\ rows_by_param_loc[<<ETP_pH, scheduler_locations[l]>>] =
                      <<[timestamp |-> Stamp(1, 6),
                         parameter_name |-> ETP_pH,
                         location_name |-> scheduler_locations[l],
                         value |-> 72, safe_min |-> 65, safe_max |-> 90]>>

\* the records the incremental process holds under a key, none when the key
\* is absent
IRecordsOf(key) ==
    IF key \in DOMAIN rows_by_param_loc THEN rows_by_param_loc[key] ELSE <<>>

\* the records the historical load returned under a parameter
HistoricalOf(k) == IF k \in DOMAIN i_historical THEN i_historical[k] ELSE <<>>

\* C13: for every key the readings the incremental process consumes are the
\* readings the historical load left out: of the N readings the parser
\* extracts for the key the historical load takes the first floor(0.8 N) and
\* the incremental process the other N - floor(0.8 N), in the order of the
\* table, each with the value of its source reading varied by at most 10%.
C13_RemainingIsComplement ==
    i_pc \in {"done", "crashed"} =>
        \A k \in QSections(i_file) :
           \A readings \in {QReadings(i_file, k)} :
              \A l \in 1..Len(scheduler_locations) :
                 \A records \in {IRecordsOf(<<k, scheduler_locations[l]>>)} :
                    /\ Len(HistoricalOf(k)) + Len(records) = Len(readings)
                    /\ \A i \in 1..Len(records) :
                          records[i].value \in
                             Varied(readings[Len(HistoricalOf(k)) + i].value, 0)
                             .. Varied(readings[Len(HistoricalOf(k)) + i].value, 99)

\* the last parameter definition line among the rows start+1..i-1, 0 when
\* there is none
RECURSIVE IHeaderBefore(_, _, _)
IHeaderBefore(file, i, start) ==
    IF i - 1 <= start THEN 0
    ELSE IF QIsParameterLine(file[i - 1]) THEN i - 1
    ELSE IHeaderBefore(file, i - 1, start)

\* the name the incremental process gives the section row i of the tail
\* belongs to, None before the first parameter line of the tail
ISectionAt(file, i) ==
    LET h == IHeaderBefore(file, i, Cutoff(Len(file)))
    IN  IF h = 0 THEN None
        ELSE scheduler_normalize_parameter_name(
                 Strip(Split(Line(file[h][1]), SafeRangeMarker)[1]))

\* the rows of the tail that are readings of section p: a date, a time and a
\* finite number
IReadingRows(file, p) ==
    {i \in (Cutoff(Len(file)) + 1)..Len(file) :
        /\ QIsDataRow(file[i])
        /\ file[i][1].t = "date" /\ file[i][2].t = "time"
        /\ file[i][3].t = "num"
        /\ ISectionAt(file, i) = p}

\* the chunks, yielded or still to be yielded, in yield order
IAllChunks == i_submitted \o i_chunks

\* the key of a chunk: parameter and location of its first record
ChunkKey(chunk) == <<chunk[1].parameter_name, chunk[1].location_name>>

RECURSIVE Flatten(_)
Flatten(chunks) ==
    IF chunks = <<>> THEN <<>> ELSE Head(chunks) \o Flatten(Tail(chunks))

----------------------------------------------------------------------------
(* Claims on run_full_ingestion and insert_data_batch *)

\* the positions in the log of the requests of a method
DRequestsOf(method) == {i \in DOMAIN d_requests : d_requests[i].method = method}

\* every request of the run so far was accepted
DAllAccepted == \A i \in DOMAIN d_requests : d_requests[i].outcome = "accepted"

\* the records of a table that the two parsers return for the files of the run
DParsed(table) ==
    IF table = "water_quality"
    THEN Extend(process_water_quality_data(IHead(d_rows)),
                DOMAIN process_water_quality_data(IHead(d_rows)))
    ELSE Extend(process_flow_data(FHead(d_rows)),
                DOMAIN process_flow_data(FHead(d_rows)))

\* C15: with clear_existing = True the two deletes come before every insert
\* (an insert is sent only after both deletes were); when the run is done
\* with every request accepted and nothing else writing, each table holds
\* exactly the records the parser returned for it, and no row from before
C15_DeleteBeforeInsertThenExactlyParsed ==
    d_clear =>
        /\ \A i \in DRequestsOf("DELETE"), j \in DRequestsOf("POST") : i < j
        /\ DRequestsOf("POST") # {} =>
              \A table \in {"water_quality", "flow_rate"} :
                  \E i \in DRequestsOf("DELETE") : d_requests[i].table = table
        /\ (d_pc = "done" /\ DAllAccepted /\ s_pc = "off") =>
              /\ water_quality = DParsed("water_quality")
              /\ flow_rate = DParsed("flow_rate")
              /\ \A i \in DOMAIN water_quality : water_quality[i] # OldQualityRow
              /\ \A i \in DOMAIN flow_rate : flow_rate[i] # OldFlowRow

\* a full-replace run over tables that held rows is done, every request
\* accepted, and the tables hold the parsed records
C15_Witness ==
    /\ d_clear
    /\ d_pc = "done"
    /\ DAllAccepted
    /\ \E i \in DRequestsOf("DELETE") : d_requests[i].rows = <<OldQualityRow>>
    /\ \E i \in DRequestsOf("DELETE") : d_requests[i].rows = <<OldFlowRow>>
    /\ Len(water_quality) = 3
    /\ Len(flow_rate) = 3

\* the POST requests of the run for a table, in the order they were sent
DPosts(table) ==
    LET IsPost(r) == r.method = "POST" /\ r.table = table
    IN  SelectSeq(d_requests, IsPost)

\* insert_data_batch was called for the table and has ended
DInsertEnded(table) ==
    /\ IF table = "water_quality"
       THEN process_water_quality_data(IHead(d_rows)) # EmptyDict
       ELSE process_flow_data(FHead(d_rows)) # EmptyDict
    /\ IF table = "water_quality"
       THEN d_pc \in {"process_flow", "insert_flow", "verify", "done"}
       ELSE d_pc \in {"verify", "done"}

\* no call of requests.post for the table has raised
DNoneRaised(table) ==
    \A k \in DOMAIN DPosts(table) : DPosts(table)[k].outcome # "raised"

\* ceil(n / size)
Ceil(n, size) == (n + size - 1) \div size

C17_EveryBatchAttemptedOnce ==
    \A table \in {"water_quality", "flow_rate"} :
        DInsertEnded(table) =>
            /\ Len(DPosts(table)) = Ceil(Len(DParsed(table)), batch_size)
            /\ Flatten([k \in DOMAIN DPosts(table) |-> DPosts(table)[k].rows])
                  = DParsed(table)

----------------------------------------------------------------------------
(* Claims on the simulator *)

\* the records of the tick that name the parameter and the location
SReadingsOf(param, location) ==
    {k \in DOMAIN s_quality :
        /\ s_quality[k].parameter_name = param
        /\ "location_name" \in DOMAIN s_quality[k]
        /\ s_quality[k].location_name = location}

\* the tick's quality batch was sent, and before the tick's flow batch
SQualitySentFirst ==
    /\ s_pc = "insert_flow" =>
          /\ Len(s_requests) % 2 = 1
          /\ s_requests[Len(s_requests)].rows = s_quality
    /\ (s_pc = "loop" /\ s_ticks > 0) =>
          /\ Len(s_requests) % 2 = 0
          /\ s_requests[Len(s_requests) - 1].rows = s_quality
          /\ s_requests[Len(s_requests)].rows = s_flow

\* C18: a tick makes 40 quality records, one for every pair of a parameter
\* and a location and naming both, and 5 flow records, one per location,
\* all with one timestamp; the quality batch is submitted before the flow
\* batch
C18_OneReadingPerParameterAndLocation ==
    s_ticks > 0 =>
        /\ Len(s_quality) = 40
        /\ \A param \in ALLOWED_PARAMETERS, location \in expected_locations :
              Cardinality(SReadingsOf(param, location)) = 1
        /\ Len(s_flow) = 5
        /\ \A location \in expected_locations :
              Cardinality({k \in DOMAIN s_flow :
                              s_flow[k].location_name = location}) = 1
        /\ \A k \in DOMAIN s_quality : s_quality[k].timestamp = s_flow[1].timestamp
        /\ \A k \in DOMAIN s_flow : s_flow[k].timestamp = s_flow[1].timestamp
        /\ SQualitySentFirst

\* the number of times a row occurs in a sequence of rows
Occurrences(row, rows) == Cardinality({k \in DOMAIN rows : rows[k] = row})

\* the driver's run has ended and the simulator has made its last tick
BothFinished ==
    /\ d_pc \in {"done", "failed"}
    /\ s_pc = "loop"
    /\ s_ticks = MaxTicks

\* C19: with the simulator's ticks and a full-refresh run interleaved in any
\* order, every row the store accepted from either process after the delete
\* step is in its table when both have finished, as often as it was
\* accepted; and whatever rows a table holds and in whatever order they
\* arrived, the store can accept the insert a process is about to send
C19_NoAcceptedInsertLost ==
    /\ BothFinished =>
          /\ \A k \in DOMAIN t_accepted.water_quality :
                Occurrences(t_accepted.water_quality[k], t_accepted.water_quality)
                   <= Occurrences(t_accepted.water_quality[k], water_quality)
          /\ \A k \in DOMAIN t_accepted.flow_rate :
                Occurrences(t_accepted.flow_rate[k], t_accepted.flow_rate)
                   <= Occurrences(t_accepted.flow_rate[k], flow_rate)
    /\ s_pc = "insert_quality" =>
          ENABLED (SimInsertQuality
                   /\ water_quality' = water_quality \o s_quality)
    /\ s_pc = "insert_flow" =>
          ENABLED (SimInsertFlow /\ flow_rate' = flow_rate \o s_flow)
    /\ (d_pc = "insert_quality" /\ d_i < Len(d_data)) =>
          ENABLED (PostQualityBatch
                   /\ Len(water_quality') > Len(water_quality))
    /\ (d_pc = "insert_flow" /\ d_i < Len(d_data)) =>
          ENABLED (PostFlowBatch /\ Len(flow_rate') > Len(flow_rate))

\* both have finished; a tick accepted before the delete is gone, a tick
\* accepted after it is in the table between two batches of the driver
C19_Witness ==
    /\ BothFinished
    /\ \E i \in DOMAIN s_requests :
          /\ s_requests[i].table = "water_quality"
          /\ s_requests[i].outcome = "accepted"
          /\ Occurrences(s_requests[i].rows[1], water_quality) = 0
    /\ \E a, b, c \in DOMAIN water_quality :
          /\ a < b /\ b < c
          /\ water_quality[a].timestamp < Now
          /\ water_quality[b].timestamp >= Now
          /\ water_quality[c].timestamp < Now
    /\ Len(t_accepted.water_quality) = 40 + 3

----------------------------------------------------------------------------
(* Claims on the chatbot *)

\* fetch j is for the table and intent of the same question as fetch i (or
\* both are the alert check), and i is the last such fetch before j that
\* stored its result
CRepeats(i, j) ==
    /\ i < j
    /\ c_fetches[i].caller = c_fetches[j].caller
    /\ c_fetches[i].question = c_fetches[j].question
          \/ c_fetches[i].caller = "check_alerts"
    /\ c_fetches[i].stored
    /\ \A k \in (i + 1)..(j - 1) :
          ~(/\ c_fetches[k].caller = c_fetches[i].caller
            /\ c_fetches[k].stored
            /\ c_fetches[k].question = c_fetches[i].question
                  \/ c_fetches[k].caller = "check_alerts")

\* C20: a fetch for the table and intent of a question already fetched, or
\* of the alert check, returns the cached result without a round-trip when
\* less than 300 seconds have passed since the result was stored, and queries
\* the store again when 300 seconds or more have passed
C20_SecondFetchWithinFiveMinutesCached ==
    \A i, j \in DOMAIN c_fetches :
        CRepeats(i, j) =>
            (c_fetches[j].round_trip
                <=> c_fetches[j].time - c_fetches[i].time >= CACHE_SECONDS)

----------------------------------------------------------------------------
(* Claims on the fetches *)

\* the fetch has ended with no request failed
GReturned == g_pc = "returned"

\* the fetch has ended
GEnded == g_pc \in {"returned", "caught", "raised"}

\* what WaterChatBot.fetch_data returns for the rows and the intent
GChatbotResult ==
    IF g_intent.aggregation = "latest" THEN latest(g_rows, latest_limit)
    ELSE IF g_intent.needs_full_scan THEN g_rows
    ELSE Take(g_rows, page_size)

C22_FailedFetchCaught ==
    /\ g_pc # "raised"
    /\ g_pc = "caught" => g_df = <<>>

----------------------------------------------------------------------------
(* Claims on the chat panel *)

\* C23: generate_response never raises: when the LLM call fails it returns
\* an error string, in both implementations; a chatbot that is not
\* initialized returns its fixed message with no call to the store or the
\* LLM
C23_LLMFailureReturnsErrorString ==
    \A k \in DOMAIN h_handled :
        /\ (h_handled[k].llm = "raised" /\ h_handled[k].store = "rows"
            /\ h_initialized /\ ~h_handled[k].known) =>
              (~h_handled[k].raised /\ h_handled[k].response = "error")
        /\ (~h_initialized /\ ~h_handled[k].known
            /\ h_handled[k].kind # "failed") =>
              /\ h_handled[k].response = "not_initialized"
              /\ h_handled[k].calls = <<>>

\* C29: after every run of show_chatbot the history alternates user and
\* assistant messages, starting with a user message and ending with an
\* assistant message, also when answering failed; a quick query whose text
\* is in the history adds nothing
C29_ChatHistoryAlternates ==
    /\ Len(chat_history) % 2 = 0
    /\ \A k \in DOMAIN chat_history :
          chat_history[k].role = IF k % 2 = 1 THEN "user" ELSE "assistant"
    /\ \A k \in DOMAIN h_handled :
          (h_handled[k].kind = "quick" /\ h_handled[k].known) =>
              /\ h_handled[k].after = h_handled[k].before
              /\ h_handled[k].calls = <<>>

----------------------------------------------------------------------------
(* Claims on the entry points *)

\* C24: an entry point started with a required configuration value missing
\* reports it and stops: it does not raise and makes no call to the store
\* or the LLM
C24_MissingConfigReportedAndStopped ==
    (e_pc \notin {"off", "start"} /\ ~(Required(e_entry) \subseteq e_config)) =>
        (e_pc = "reported" /\ e_calls = 0)

----------------------------------------------------------------------------
(* Claims on the scheduler *)

\* the rows of a table as a set
RowsOf(table) == {table[k] : k \in DOMAIN table}

\* C25: no step of the ingestion changes or removes a stored row, and no
\* reading is stored twice, however many cycles run
C25_StoredReadingsNeverChangeNorRepeat ==
    [][/\ RowsOf(water_quality) \subseteq RowsOf(water_quality')
       /\ \A j, k \in DOMAIN water_quality' :
             RowKey(water_quality'[j]) = RowKey(water_quality'[k]) => j = k]_vars

----------------------------------------------------------------------------
(* Claims on the safe range of a quality record *)

\* the parameter definition line that opened the section the last row of the
\* table belongs to
SectionHeader(file) ==
    Line(file[CHOOSE i \in DOMAIN file :
                 /\ QIsParameterLine(file[i])
                 /\ \A j \in DOMAIN file : QIsParameterLine(file[j]) => j <= i][1])

\* C26: a record appended by the quality parser carries the safe range
\* parsed from the header of its own section, never the range of an earlier
\* section and never none, also when the range text of its header cannot be
\* parsed
C26_RecordCarriesRangeOfOwnSection ==
    [][rows_by_param' # rows_by_param =>
          /\ ParseSafeRange(SectionHeader(q_file')).ok
          /\ \E r \in {rows_by_param'[current_param']
                          [Len(rows_by_param'[current_param'])]} :
                <<r.safe_min, r.safe_max>>
                    = ParseSafeRange(SectionHeader(q_file')).v]_vars

----------------------------------------------------------------------------
(* Claims on the return value of insert_data_batch and on the connection   *)
(* test                                                                     *)

\* the records of the batches the store accepted for a table
DAcceptedRecords(table) ==
    Flatten([k \in DOMAIN DPosts(table) |->
                IF DPosts(table)[k].outcome = "accepted"
                THEN DPosts(table)[k].rows ELSE <<>>])

\* C27: the value insert_data_batch returns is the number of records in the
\* batches the store accepted, whichever batches failed and however they
\* failed
C27_ReturnCountsAcceptedRecords ==
    /\ (DInsertEnded("water_quality") /\ d_pc = "process_flow") =>
          d_total = Len(DAcceptedRecords("water_quality"))
    /\ DInsertEnded("flow_rate") =>
          d_total = Len(DAcceptedRecords("flow_rate"))

\* C28: run_full_ingestion sends a delete or an insert only after the
\* connection test has succeeded: a failed test ends the run with no request
\* sent, then or later; with clear_existing False no delete is ever sent
C28_NoRequestWithoutConnection ==
    [][/\ d_pc \in {"start", "failed"} => d_requests' = d_requests
       /\ (d_pc = "start" /\ faults' # faults) => d_pc' = "failed"
       /\ d_pc = "failed" => d_pc' = "failed"
       /\ ~d_clear => DRequestsOf("DELETE") = {}]_vars

\* the connection test of a full-replace run has failed: the run has ended
\* with no request sent and the rows of the earlier run are still stored
C28_Witness ==
    /\ d_clear
    /\ d_pc = "failed"
    /\ d_requests = <<>>
    /\ faults = 0
    /\ water_quality = <<OldQualityRow>>

----------------------------------------------------------------------------
(* Claims on fetch_split_data *)

\* what fetch_split_data returns for another mode on the same tables
KOther(mode) ==
    fetch_split_data(mode, k_initialized, k_flow, k_quality, k_raise_at)

====
